---------------------------- MODULE Spec2Model ----------------------------
(***************************************************************************)
(* Model of the resume scoring pipeline of src/services/atsScorer.js:      *)
(* the keyword comparator, the five sub-score calculators, the aggregator  *)
(* (calculateScore) and the recommendation generator.                      *)
(*                                                                         *)
(* A JavaScript string is a sequence of one-character strings, so that     *)
(* toLowerCase, includes, split and the regular expressions of the source  *)
(* are computed character by character.  A JavaScript number that may be   *)
(* fractional is an exact fraction [num, den] (see Frac below).            *)
(***************************************************************************)
EXTENDS Integers, Sequences, FiniteSets, TLC

VARIABLES
  ckResumeKeywords,  \* compareKeywords: argument resumeKeywords
  ckJobKeywords,     \* compareKeywords: argument jobKeywords
  comparison,        \* compareKeywords: the returned object
  ckPc               \* "call" before compareKeywords ran, "done" after

ckVars == <<ckResumeKeywords, ckJobKeywords, comparison, ckPc>>

VARIABLES
  reqResumeText,        \* the parsed resume text
  reqJobDescription, \* the job description text
  nlpReading,        \* how the compromise package reads a text (see NlpReadings)
  reqResumeKeywords, \* extractKeywords(reqResumeText)
  reqJobKeywords,    \* extractKeywords(reqJobDescription)
  subScores,         \* the five sub-score objects of calculateScore
  reqScoreResults,      \* the object calculateScore returns
  recommendations,   \* the array generateRecommendations returns
  gradeArg,          \* the argument of a direct call of getScoreGrade
  pc                 \* the next step of the analysis

vars == <<reqResumeText, reqJobDescription, nlpReading, reqResumeKeywords,
          reqJobKeywords, subScores, reqScoreResults, recommendations, gradeArg, pc>>

VARIABLES
  reqFile,           \* req.file is defined: multer has stored the upload
  fileOnDisk,        \* the stored upload exists in the uploads directory
  filePath,          \* the handler's filePath: "null" or "path"
  cleanupCalls,      \* the number of calls of cleanupFile(filePath)
  response           \* the response: <<>>, or its status, its body, and sent

hVars == <<reqFile, fileOnDisk, filePath, cleanupCalls, response>>

VARIABLE
  dictionaries       \* the objects bound to TECHNICAL_SKILLS, ACTION_VERBS, STOP_WORDS

VARIABLES
  selectedFile,        \* the page's selectedFile: <<>> for null, or a file
  jobDescriptionValue, \* jobDescriptionInput.value
  analyzeBtnDisabled,  \* analyzeBtn.disabled
  errorShown,          \* errorMessage is displayed
  resultsShown,        \* resultsSection is displayed
  currentAnalysis,     \* the page's currentAnalysis: <<>> for null, or data
  displayedSteps,      \* the display steps the last displayResults completed
  pendingRequests      \* the calls of analyzeResume that await their response

pageVars == <<selectedFile, jobDescriptionValue, analyzeBtnDisabled, errorShown,
              resultsShown, currentAnalysis, displayedSteps, pendingRequests>>

allVars == <<vars, ckVars, hVars, dictionaries, pageVars>>

--------------------------------------------------------------------------
(* Sequences and strings *)

Range(s) == {s[i] : i \in 1..Len(s)}

\* Array.prototype.slice(0, n)
Slice(s, n) == IF Len(s) <= n THEN s ELSE SubSeq(s, 1, n)

UpperToLower ==
  ("A" :> "a") @@ ("B" :> "b") @@ ("C" :> "c") @@ ("D" :> "d") @@ ("E" :> "e") @@
  ("F" :> "f") @@ ("G" :> "g") @@ ("H" :> "h") @@ ("I" :> "i") @@ ("J" :> "j") @@
  ("K" :> "k") @@ ("L" :> "l") @@ ("M" :> "m") @@ ("N" :> "n") @@ ("O" :> "o") @@
  ("P" :> "p") @@ ("Q" :> "q") @@ ("R" :> "r") @@ ("S" :> "s") @@ ("T" :> "t") @@
  ("U" :> "u") @@ ("V" :> "v") @@ ("W" :> "w") @@ ("X" :> "x") @@ ("Y" :> "y") @@
  ("Z" :> "z")

LowerChar(c) == IF c \in DOMAIN UpperToLower THEN UpperToLower[c] ELSE c

\* String.prototype.toLowerCase
ToLowerCase(s) == SubSeq([i \in 1..Len(s) |-> LowerChar(s[i])], 1, Len(s))

\* whether lit occurs in s at (1-based) position i
LitAt(s, i, lit) ==
  /\ i + Len(lit) - 1 <= Len(s)
  /\ \A j \in 1..Len(lit) : s[i + j - 1] = lit[j]

\* String.prototype.includes
Includes(s, lit) ==
  \E i \in 1..(Len(s) - Len(lit) + 1) : (lit # <<>> => s[i] = lit[1]) /\ LitAt(s, i, lit)

--------------------------------------------------------------------------
(* Fractions: a JavaScript number num/den with den > 0 *)

Frac(n, d) == [num |-> n, den |-> d]

\* (a / b) * 100, the rate expressions of compareKeywords and calculateSkillsScore
Percent(a, b) == Frac(a * 100, b)

AddUncapped(f, k) == Frac(f.num + k * f.den, f.den)

\* Math.min(100, score + 10) and friends
AddCapped(f, k) ==
  IF f.num + k * f.den >= 100 * f.den THEN Frac(100, 1) ELSE Frac(f.num + k * f.den, f.den)

\* Math.round on a non-negative fraction: halves round up
Round(f) == (2 * f.num + f.den) \div (2 * f.den)

FracLess(f, k) == f.num < k * f.den
FracGreater(f, k) == f.num > k * f.den
FracEq(f, g) == f.num * g.den = g.num * f.den

--------------------------------------------------------------------------
(* compareKeywords, src/services/atsScorer.js:1004-1039 *)

\* the test of lines 1013-1024 for one job keyword: resumeSet.has(lowerKeyword),
\* else the first resume keyword that contains it or is contained in it.
\* The value is the number of pushes onto matched (0 or 1: the loop breaks).
MatchPushesNoBreak(resumeSet, lowerKeyword) ==
  IF lowerKeyword \in resumeSet THEN 1
  ELSE Cardinality({r \in resumeSet :
                      Includes(r, lowerKeyword) \/ Includes(lowerKeyword, r)})

MatchPushesOneWay(resumeSet, lowerKeyword) ==
  IF lowerKeyword \in resumeSet THEN 1
  ELSE IF \E r \in resumeSet : Includes(r, lowerKeyword)
       THEN 1 ELSE 0

MatchPushes(resumeSet, lowerKeyword) ==
  IF lowerKeyword \in resumeSet THEN 1
  ELSE IF \E r \in resumeSet :
            Includes(r, lowerKeyword) \/ Includes(lowerKeyword, r)
       THEN 1 ELSE 0

Repeat(x, n) == [i \in 1..n |-> x]

RECURSIVE CompareLoop(_, _, _, _, _)
\* jobKeywords.forEach of lines 1011-1029, from index i
CompareLoop(resumeSet, jobKeywords, i, matched, missing) ==
  IF i > Len(jobKeywords) THEN [matched |-> matched, missing |-> missing]
  ELSE LET keyword == jobKeywords[i]
           n == MatchPushes(resumeSet, ToLowerCase(keyword))
       IN IF n > 0
          THEN CompareLoop(resumeSet, jobKeywords, i + 1,
                           matched \o Repeat(keyword, n), missing)
          ELSE CompareLoop(resumeSet, jobKeywords, i + 1,
                           matched, Append(missing, keyword))

compareKeywords(resumeKeywords, jobKeywords) ==
  LET resumeSet == {ToLowerCase(k) : k \in Range(resumeKeywords)}
      r == CompareLoop(resumeSet, jobKeywords, 1, <<>>, <<>>)
  IN [matched |-> r.matched,
      missing |-> r.missing,
      matchRate |-> IF Len(jobKeywords) > 0
                    THEN Percent(Len(r.matched), Len(jobKeywords))
                    ELSE Frac(0, 1),
      totalJobKeywords |-> Len(jobKeywords),
      matchedCount |-> Len(r.matched),
      missingCount |-> Len(r.missing)]

--------------------------------------------------------------------------
(* Texts and character classes *)

\* A text is the JavaScript string made of body followed by filler copies of
\* " x": resumes of several hundred words, which the length rules are about,
\* without a character sequence of that length.  The filler words hold no
\* digit, no punctuation and no dictionary, verb, degree or section word,
\* so the patterns of the source are searched in body.
Text(body, filler) == [body |-> body, filler |-> filler]

TextToLowerCase(text) == Text(ToLowerCase(text.body), text.filler)

Digits == {"0", "1", "2", "3", "4", "5", "6", "7", "8", "9"}

Letters == {"a", "b", "c", "d", "e", "f", "g", "h", "i", "j", "k", "l", "m",
            "n", "o", "p", "q", "r", "s", "t", "u", "v", "w", "x", "y", "z"}

\* \d, [a-zA-Z], \w and \s of the regular expressions
IsDigit(c) == c \in Digits
IsLetter(c) == LowerChar(c) \in Letters
IsWordChar(c) == IsLetter(c) \/ IsDigit(c) \/ c = "_"
IsSpace(c) == c \in {" ", "\n", "\t"}

DigitValue ==
  ("0" :> 0) @@ ("1" :> 1) @@ ("2" :> 2) @@ ("3" :> 3) @@ ("4" :> 4) @@
  ("5" :> 5) @@ ("6" :> 6) @@ ("7" :> 7) @@ ("8" :> 8) @@ ("9" :> 9)

\* whether lit (lowercase) occurs in s at position i, ignoring case (flag i)
LitAtCI(s, i, lit) ==
  /\ i >= 1
  /\ i + Len(lit) - 1 <= Len(s)
  /\ \A j \in 1..Len(lit) : LowerChar(s[i + j - 1]) = lit[j]

\* an unanchored /lit/i.test(s)
IncludesCI(s, lit) ==
  \E i \in 1..(Len(s) - Len(lit) + 1) : LowerChar(s[i]) = lit[1] /\ LitAtCI(s, i, lit)

\* \b between s[i-1] and s[i], for i in 1..Len(s)+1
WordBoundary(s, i) ==
  LET before == i - 1 >= 1 /\ i - 1 <= Len(s) /\ IsWordChar(s[i - 1])
      after == i >= 1 /\ i <= Len(s) /\ IsWordChar(s[i])
  IN before # after

\* the end of a greedy \s* (resp. \d*) started at i: the first index from i on
\* that holds no white space (resp. no digit), Len(s)+1 if there is none
RECURSIVE SkipSpaces(_, _)
SkipSpaces(s, i) ==
  IF i > Len(s) \/ ~IsSpace(s[i]) THEN i ELSE SkipSpaces(s, i + 1)

RECURSIVE SkipDigits(_, _)
SkipDigits(s, i) ==
  IF i > Len(s) \/ ~IsDigit(s[i]) THEN i ELSE SkipDigits(s, i + 1)

RECURSIVE ParseDigits(_, _, _)
\* parseInt of the digits s[i..j-1]
ParseDigits(s, i, j) ==
  IF i >= j THEN 0 ELSE 10 * ParseDigits(s, i, j - 1) + DigitValue[s[j - 1]]

\* the first index of each maximal run of digits of s
DigitRunStarts(s) ==
  {i \in 1..Len(s) : IsDigit(s[i]) /\ (i = 1 \/ ~IsDigit(s[i - 1]))}

\* text.split(/\s+/).length: one more than the number of white-space runs
SplitCount(s) ==
  1 + Cardinality({i \in 1..Len(s) : IsSpace(s[i]) /\ (i = 1 \/ ~IsSpace(s[i - 1]))})

\* the filler " x x ... x" continues a white-space run that ends body
WordCount(text) ==
  SplitCount(text.body) + text.filler
    - (IF text.filler > 0 /\ Len(text.body) > 0 /\ IsSpace(text.body[Len(text.body)])
       THEN 1 ELSE 0)

\* Array.prototype.sort, a stable sort.  cmp[i][j] is the comparator's value
\* for the elements at i and j; order lists the indices sorted so far, and
\* index i goes behind every one that does not come after it.
SortInsert(cmp, order, i) ==
  LET k == Cardinality({n \in 1..Len(order) : cmp[order[n]][i] <= 0})
  IN SubSeq(order, 1, k) \o <<i>> \o SubSeq(order, k + 1, Len(order))

RECURSIVE SortFrom(_, _, _, _)
SortFrom(cmp, n, i, order) ==
  IF i > n THEN order
  ELSE SortFrom(cmp, n, i + 1, SortInsert(cmp, order, i))

Permute(s, order) == [k \in 1..Len(order) |-> s[order[k]]]

Sort(cmp, s) == Permute(s, SortFrom(cmp, Len(s), 1, <<>>))

\* the concatenation of a sequence of sequences (a forEach that pushes)
RECURSIVE Flatten(_)
Flatten(ss) == IF ss = <<>> THEN <<>> ELSE Head(ss) \o Flatten(Tail(ss))

--------------------------------------------------------------------------
(* The static dictionaries, src/services/atsScorer.js:750-804 *)

TECHNICAL_SKILLS == <<
  [category |-> "programming", skills |-> <<
     <<"p","y","t","h","o","n">>, <<"j","a","v","a">>, <<"j","a","v","a","s","c","r","i","p","t">>,
     <<"t","y","p","e","s","c","r","i","p","t">>, <<"c","+","+">>, <<"c","#">>,
     <<"r","u","b","y">>, <<"g","o">>, <<"r","u","s","t">>, <<"p","h","p">>,
     <<"s","w","i","f","t">>, <<"k","o","t","l","i","n">>, <<"s","c","a","l","a">>, <<"r">>,
     <<"m","a","t","l","a","b">>, <<"s","q","l">>, <<"h","t","m","l">>, <<"c","s","s">> >>],
  [category |-> "frameworks", skills |-> <<
     <<"r","e","a","c","t">>, <<"a","n","g","u","l","a","r">>, <<"v","u","e">>,
     <<"n","o","d","e",".","j","s">>, <<"e","x","p","r","e","s","s">>, <<"d","j","a","n","g","o">>,
     <<"f","l","a","s","k">>, <<"s","p","r","i","n","g">>,
     <<"t","e","n","s","o","r","f","l","o","w">>, <<"p","y","t","o","r","c","h">>,
     <<"k","e","r","a","s">>, <<"s","c","i","k","i","t","-","l","e","a","r","n">>,
     <<"p","a","n","d","a","s">>, <<"n","u","m","p","y">>,
     <<"r","e","a","c","t"," ","n","a","t","i","v","e">>, <<"f","l","u","t","t","e","r">>,
     <<"n","e","x","t",".","j","s">>, <<"f","a","s","t","a","p","i">>,
     <<"l","a","r","a","v","e","l">>, <<"r","a","i","l","s">>, <<".","n","e","t">>,
     <<"a","s","p",".","n","e","t">> >>],
  [category |-> "databases", skills |-> <<
     <<"m","y","s","q","l">>, <<"p","o","s","t","g","r","e","s","q","l">>,
     <<"m","o","n","g","o","d","b">>, <<"r","e","d","i","s">>,
     <<"e","l","a","s","t","i","c","s","e","a","r","c","h">>,
     <<"c","a","s","s","a","n","d","r","a">>, <<"d","y","n","a","m","o","d","b">>,
     <<"o","r","a","c","l","e">>, <<"s","q","l"," ","s","e","r","v","e","r">>,
     <<"s","q","l","i","t","e">>, <<"m","a","r","i","a","d","b">>, <<"n","e","o","4","j">> >>],
  [category |-> "cloud", skills |-> <<
     <<"a","w","s">>, <<"a","z","u","r","e">>, <<"g","c","p">>,
     <<"g","o","o","g","l","e"," ","c","l","o","u","d">>, <<"d","o","c","k","e","r">>,
     <<"k","u","b","e","r","n","e","t","e","s">>, <<"j","e","n","k","i","n","s">>,
     <<"t","e","r","r","a","f","o","r","m">>, <<"a","n","s","i","b","l","e">>,
     <<"c","i","/","c","d">>, <<"d","e","v","o","p","s">>,
     <<"m","i","c","r","o","s","e","r","v","i","c","e","s">>,
     <<"s","e","r","v","e","r","l","e","s","s">> >>],
  [category |-> "dataScience", skills |-> <<
     <<"m","a","c","h","i","n","e"," ","l","e","a","r","n","i","n","g">>,
     <<"d","e","e","p"," ","l","e","a","r","n","i","n","g">>, <<"n","l","p">>,
     <<"c","o","m","p","u","t","e","r"," ","v","i","s","i","o","n">>,
     <<"d","a","t","a"," ","m","i","n","i","n","g">>,
     <<"s","t","a","t","i","s","t","i","c","a","l"," ","a","n","a","l","y","s","i","s">>,
     <<"d","a","t","a"," ","v","i","s","u","a","l","i","z","a","t","i","o","n">>,
     <<"b","i","g"," ","d","a","t","a">>, <<"s","p","a","r","k">>, <<"h","a","d","o","o","p">>,
     <<"t","a","b","l","e","a","u">>, <<"p","o","w","e","r"," ","b","i">>,
     <<"j","u","p","y","t","e","r">>, <<"a","/","b"," ","t","e","s","t","i","n","g">>,
     <<"p","r","e","d","i","c","t","i","v","e"," ","m","o","d","e","l","i","n","g">> >>],
  [category |-> "tools", skills |-> <<
     <<"g","i","t">>, <<"g","i","t","h","u","b">>, <<"g","i","t","l","a","b">>,
     <<"j","i","r","a">>, <<"c","o","n","f","l","u","e","n","c","e">>, <<"s","l","a","c","k">>,
     <<"v","s","c","o","d","e">>, <<"i","n","t","e","l","l","i","j">>,
     <<"p","o","s","t","m","a","n">>, <<"s","w","a","g","g","e","r">>, <<"f","i","g","m","a">>,
     <<"s","k","e","t","c","h">>, <<"p","h","o","t","o","s","h","o","p">> >>],
  [category |-> "methodologies", skills |-> <<
     <<"a","g","i","l","e">>, <<"s","c","r","u","m">>, <<"k","a","n","b","a","n">>,
     <<"w","a","t","e","r","f","a","l","l">>, <<"t","d","d">>, <<"b","d","d">>,
     <<"c","i","/","c","d">>, <<"p","a","i","r"," ","p","r","o","g","r","a","m","m","i","n","g">>,
     <<"c","o","d","e"," ","r","e","v","i","e","w">>,
     <<"v","e","r","s","i","o","n"," ","c","o","n","t","r","o","l">> >>] >>

ACTION_VERBS == <<
  <<"a","c","h","i","e","v","e","d">>, <<"i","m","p","r","o","v","e","d">>,
  <<"d","e","v","e","l","o","p","e","d">>, <<"c","r","e","a","t","e","d">>,
  <<"i","m","p","l","e","m","e","n","t","e","d">>, <<"d","e","s","i","g","n","e","d">>,
  <<"m","a","n","a","g","e","d">>, <<"l","e","d">>,
  <<"c","o","o","r","d","i","n","a","t","e","d">>, <<"i","n","c","r","e","a","s","e","d">>,
  <<"d","e","c","r","e","a","s","e","d">>, <<"r","e","d","u","c","e","d">>,
  <<"o","p","t","i","m","i","z","e","d">>, <<"s","t","r","e","a","m","l","i","n","e","d">>,
  <<"a","u","t","o","m","a","t","e","d">>, <<"l","a","u","n","c","h","e","d">>,
  <<"d","e","l","i","v","e","r","e","d">>, <<"b","u","i","l","t">>,
  <<"e","s","t","a","b","l","i","s","h","e","d">>, <<"a","n","a","l","y","z","e","d">>,
  <<"e","v","a","l","u","a","t","e","d">>, <<"r","e","s","e","a","r","c","h","e","d">>,
  <<"c","o","l","l","a","b","o","r","a","t","e","d">>, <<"m","e","n","t","o","r","e","d">>,
  <<"t","r","a","i","n","e","d">>, <<"p","r","e","s","e","n","t","e","d">>,
  <<"n","e","g","o","t","i","a","t","e","d">>, <<"r","e","s","o","l","v","e","d">>,
  <<"e","x","e","c","u","t","e","d">> >>

STOP_WORDS == {
  <<"t","h","e">>, <<"a">>, <<"a","n">>, <<"a","n","d">>, <<"o","r">>, <<"b","u","t">>,
  <<"i","n">>, <<"o","n">>, <<"a","t">>, <<"t","o">>, <<"f","o","r">>, <<"o","f">>,
  <<"w","i","t","h">>, <<"b","y">>, <<"f","r","o","m">>, <<"a","s">>, <<"i","s">>, <<"w","a","s">>,
  <<"a","r","e">>, <<"w","e","r","e">>, <<"b","e","e","n">>, <<"b","e">>, <<"h","a","v","e">>,
  <<"h","a","s">>, <<"h","a","d">>, <<"d","o">>, <<"d","o","e","s">>, <<"d","i","d">>,
  <<"w","i","l","l">>, <<"w","o","u","l","d">>, <<"c","o","u","l","d">>,
  <<"s","h","o","u","l","d">>, <<"m","a","y">>, <<"m","i","g","h","t">>, <<"m","u","s","t">>,
  <<"c","a","n">>, <<"t","h","i","s">>, <<"t","h","a","t">>, <<"t","h","e","s","e">>,
  <<"t","h","o","s","e">>, <<"i">>, <<"y","o","u">>, <<"h","e">>, <<"s","h","e">>, <<"i","t">>,
  <<"w","e">>, <<"t","h","e","y">> }

--------------------------------------------------------------------------
(* extractSkills and extractActionVerbs, src/services/atsScorer.js:884-933 *)

\* processedText.match(/\b<entry>\b/gi).length; two occurrences of an entry
\* cannot overlap, so the matches are the places where the entry stands
\* between two word boundaries.
\* The places of s where each of its characters stands, ignoring case: an
\* entry is looked for only where its first character stands.
Places(s) ==
  [c \in {LowerChar(s[i]) : i \in 1..Len(s)} |->
     {i \in 1..Len(s) : LowerChar(s[i]) = c}]

WholeWordCount(s, places, entry) ==
  IF entry[1] \notin DOMAIN places THEN 0
  ELSE Cardinality({i \in places[entry[1]] :
                      /\ LitAtCI(s, i, entry)
                      /\ WordBoundary(s, i)
                      /\ WordBoundary(s, i + Len(entry))})

ByCountDescending(a, b) == b.count - a.count

\* found.sort((a, b) => b.count - a.count)
SortByCount(found) ==
  Sort([i \in 1..Len(found) |->
          [j \in 1..Len(found) |-> ByCountDescending(found[i], found[j])]],
       found)

\* the records pushed for one category, in the order of its entries
CategorySkills(processedText, places, cat) ==
  LET found(skill) ==
        LET n == WholeWordCount(processedText, places, skill)
        IN IF n > 0
           THEN <<[skill |-> skill, category |-> cat.category, count |-> n]>>
           ELSE <<>>
  IN Flatten([k \in 1..Len(cat.skills) |-> found(cat.skills[k])])

\* extractSkills without the sort of line 906
extractSkillsUnsorted(text) ==
  LET processedText == <<" ">> \o text.body \o <<" ">>
      places == Places(processedText)
  IN Flatten([c \in 1..Len(dictionaries.TECHNICAL_SKILLS) |->
                CategorySkills(processedText, places, dictionaries.TECHNICAL_SKILLS[c])])

extractSkills(text) ==
  LET processedText == <<" ">> \o text.body \o <<" ">>
      places == Places(processedText)
      foundSkills == Flatten([c \in 1..Len(dictionaries.TECHNICAL_SKILLS) |->
                                CategorySkills(processedText, places,
                                               dictionaries.TECHNICAL_SKILLS[c])])
  IN SortByCount(foundSkills)

extractActionVerbs(text) ==
  LET places == Places(text.body)
      found(verb) ==
        LET n == WholeWordCount(text.body, places, verb)
        IN IF n > 0 THEN <<[verb |-> verb, count |-> n]>> ELSE <<>>
      foundVerbs == Flatten([k \in 1..Len(dictionaries.ACTION_VERBS) |->
                               found(dictionaries.ACTION_VERBS[k])])
  IN SortByCount(foundVerbs)

--------------------------------------------------------------------------
(* extractYearsOfExperience, src/services/atsScorer.js:1048-1068 *)

\* the end of /years?/ matched at i, 0 if it does not match
YearsWordEnd(s, i) ==
  IF ~LitAtCI(s, i, <<"y","e","a","r">>) THEN 0
  ELSE IF LitAtCI(s, i + 4, <<"s">>) THEN i + 5 ELSE i + 4

\* the end of /(\d+)\+?\s*years?/ matched at the digit at i, 0 if no match
NumberYearsEnd(s, i) ==
  LET d == SkipDigits(s, i)
      p == IF LitAtCI(s, d, <<"+">>) THEN d + 1 ELSE d
  IN IF d = i THEN 0 ELSE YearsWordEnd(s, SkipSpaces(s, p))

\* the number captured by /(\d+)\+?\s*years?\s+(?:of\s+)?experience/gi
\* matched at i, -1 if it does not match there
YearsPattern1(s, i) ==
  LET y == NumberYearsEnd(s, i)
      a == SkipSpaces(s, y)
      o == IF LitAtCI(s, a, <<"o","f">>) /\ SkipSpaces(s, a + 2) > a + 2
           THEN SkipSpaces(s, a + 2) ELSE a
  IN IF y > 0 /\ a > y /\ (LitAtCI(s, o, <<"e","x","p","e","r","i","e","n","c","e">>) \/ LitAtCI(s, a, <<"e","x","p","e","r","i","e","n","c","e">>))
     THEN ParseDigits(s, i, SkipDigits(s, i)) ELSE -1

\* /experience[:\s]+(\d+)\+?\s*years?/gi matched at i
YearsPattern2(s, i) ==
  LET a == CHOOSE j \in (i + 10)..(Len(s) + 1) :
             /\ j = Len(s) + 1 \/ ~(IsSpace(s[j]) \/ s[j] = ":")
             /\ \A k \in (i + 10)..(j - 1) : IsSpace(s[k]) \/ s[k] = ":"
  IN IF LitAtCI(s, i, <<"e","x","p","e","r","i","e","n","c","e">>) /\ a > i + 10 /\ NumberYearsEnd(s, a) > 0
     THEN ParseDigits(s, a, SkipDigits(s, a)) ELSE -1

\* /(\d+)\+?\s*years?\s+(?:in|with)/gi matched at i
YearsPattern3(s, i) ==
  LET y == NumberYearsEnd(s, i)
      a == SkipSpaces(s, y)
  IN IF y > 0 /\ a > y /\ (LitAtCI(s, a, <<"i","n">>) \/ LitAtCI(s, a, <<"w","i","t","h">>))
     THEN ParseDigits(s, i, SkipDigits(s, i)) ELSE -1

SetMax(S) == IF S = {} THEN 0 ELSE CHOOSE m \in S : \A x \in S : x <= m

\* A match skipped by matchAll because it overlaps an earlier one starts
\* inside that one's digits and captures no larger number, so the maximum
\* over the matches is the maximum over the places where a pattern matches.
\* maxYears starts at 0 (line 1055), and the value 0 stands for the null of
\* maxYears > 0 ? maxYears : null.
extractYearsOfExperience(text) ==
  LET s == text.body
      starts == {i \in 1..Len(s) : IsDigit(s[i])}
      exps == {i \in 1..Len(s) : LowerChar(s[i]) = "e"}
  IN SetMax({0}
            \cup {YearsPattern1(s, i) : i \in starts}
            \cup {YearsPattern2(s, i) : i \in exps}
            \cup {YearsPattern3(s, i) : i \in starts})

--------------------------------------------------------------------------
(* detectEducation, src/services/atsScorer.js:1077-1125 *)

\* the strings the degree patterns match: an optional \.? or ['']? is there
\* or not, a trailing optional one decides nothing for test()
PhdForms == {<<"p","h","d">>, <<"p","h",".","d">>, <<"d","o","c","t","o","r","a","t","e">>, <<"d","o","c","t","o","r","a","l">>}

MastersForms == {<<"m","a","s","t","e","r","s">>, <<"m","a","s","t","e","r","'","s">>, <<"m","s">>, <<"m",".","s">>, <<"m","b","a">>, <<"m",".","b","a">>,
                 <<"m","b",".","a">>, <<"m",".","b",".","a">>, <<"m","e","n","g">>, <<"m",".","e","n","g">>}

BachelorsForms == {<<"b","a","c","h","e","l","o","r","s">>, <<"b","a","c","h","e","l","o","r","'","s">>, <<"b","s">>, <<"b",".","s">>, <<"b","a">>, <<"b",".","a">>,
                   <<"b","e","n","g">>, <<"b",".","e","n","g">>, <<"u","n","d","e","r","g","r","a","d","u","a","t","e">>}

AssociatesForms == {<<"a","s","s","o","c","i","a","t","e","s">>, <<"a","s","s","o","c","i","a","t","e","'","s">>, <<"a","s">>, <<"a",".","s">>, <<"a","a">>, <<"a",".","a">>}

FieldsOfStudy == <<
  <<"c","o","m","p","u","t","e","r"," ","s","c","i","e","n","c","e">>, <<"d","a","t","a"," ","s","c","i","e","n","c","e">>, <<"e","n","g","i","n","e","e","r","i","n","g">>, <<"m","a","t","h","e","m","a","t","i","c","s">>,
  <<"s","t","a","t","i","s","t","i","c","s">>, <<"b","u","s","i","n","e","s","s">>, <<"m","a","r","k","e","t","i","n","g">>, <<"f","i","n","a","n","c","e">>, <<"a","c","c","o","u","n","t","i","n","g">>,
  <<"b","i","o","l","o","g","y">>, <<"c","h","e","m","i","s","t","r","y">>, <<"p","h","y","s","i","c","s">>, <<"p","s","y","c","h","o","l","o","g","y">> >>

TestAny(s, forms) == \E f \in forms : IncludesCI(s, f)

\* highestDegree is "none" for null
detectEducation(text) ==
  LET s == text.body
      phd == TestAny(s, PhdForms)
      masters == TestAny(s, MastersForms)
      bachelors == TestAny(s, BachelorsForms)
      associates == TestAny(s, AssociatesForms)
      lowerText == ToLowerCase(s)
  IN [highestDegree |-> IF phd THEN "phd"
                        ELSE IF masters THEN "masters"
                        ELSE IF bachelors THEN "bachelors"
                        ELSE IF associates THEN "associates"
                        ELSE "none",
      degrees |-> (IF phd THEN <<"phd">> ELSE <<>>)
                  \o (IF masters THEN <<"masters">> ELSE <<>>)
                  \o (IF bachelors THEN <<"bachelors">> ELSE <<>>)
                  \o (IF associates THEN <<"associates">> ELSE <<>>),
      fieldOfStudy |-> SelectSeq(FieldsOfStudy, LAMBDA f : Includes(lowerText, f))]

--------------------------------------------------------------------------
(* extractKeywords and its parts, src/services/atsScorer.js:813-994 *)

\* the elements of s without repetition, in the order of their first
\* occurrence: Array.from(new Set(s))
RECURSIVE DedupFrom(_, _, _)
\* a Set keeps the first of equal elements, in insertion order
DedupFrom(s, i, kept) ==
  IF i > Len(s) THEN kept
  ELSE DedupFrom(s, i + 1,
                 IF \E k \in 1..Len(kept) : kept[k] = s[i] THEN kept
                 ELSE Append(kept, s[i]))

Dedup(s) == DedupFrom(s, 1, <<>>)

\* the elements of a set of places in increasing order
Ascending(S) ==
  [k \in 1..Cardinality(S) |->
     CHOOSE i \in S : Cardinality({j \in S : j < i}) = k - 1]

\* the end of the run of word characters (resp. letters) that starts at i
RECURSIVE SkipWordChars(_, _)
SkipWordChars(s, i) ==
  IF i > Len(s) \/ ~IsWordChar(s[i]) THEN i ELSE SkipWordChars(s, i + 1)

RECURSIVE SkipLetters(_, _)
SkipLetters(s, i) ==
  IF i > Len(s) \/ ~IsLetter(s[i]) THEN i ELSE SkipLetters(s, i + 1)

\* The terms of tfidf.listTerms(0) for the one document added: the words of
\* the lowercased text (the tokenizer of the natural package splits at every
\* run of characters that are no letter, digit or underscore), each once,
\* most frequent first and in order of first occurrence among equally
\* frequent ones (with a single document every term has the same idf).
RECURSIVE TokensFrom(_, _)
\* the token low[i..end-1] and the tokens behind it
TokenAndRest(low, i, end) == <<SubSeq(low, i, end - 1)>> \o TokensFrom(low, end)

TokensFrom(low, i) ==
  IF i > Len(low) THEN <<>>
  ELSE IF IsWordChar(low[i])
       THEN TokenAndRest(low, i, SkipWordChars(low, i))
       ELSE TokensFrom(low, i + 1)

\* the number of tokens equal to each term, as a sequence
TermFrequencies(tokens, terms) ==
  SubSeq([k \in 1..Len(terms) |->
            Cardinality({n \in 1..Len(tokens) : tokens[n] = terms[k]})],
         1, Len(terms))

ByFrequencyDescending(tf) == [i \in 1..Len(tf) |-> [j \in 1..Len(tf) |-> tf[j] - tf[i]]]

SortTerms(tokens, terms) ==
  Sort(ByFrequencyDescending(TermFrequencies(tokens, terms)), terms)

TermsOf(tokens) == SortTerms(tokens, Dedup(tokens))

ListTerms(s) == TermsOf(TokensFrom(ToLowerCase(s), 1))

\* the filler word x is shorter than 3 characters: it is no keyword
extractTFIDFKeywords(text) ==
  Slice(SelectSeq(ListTerms(text.body),
                  LAMBDA term : term \notin dictionaries.STOP_WORDS /\ Len(term) > 2), 50)

\* the end of /\b([a-z]+\s+[a-z]+)\b/ matched at i of a lowercase s, 0 if it
\* does not match there
BigramEnd(s, i) ==
  LET e1 == SkipLetters(s, i)
      b == SkipSpaces(s, e1)
      e2 == SkipLetters(s, b)
  IN IF WordBoundary(s, i) /\ e1 > i /\ b > e1 /\ e2 > b /\ WordBoundary(s, e2)
     THEN e2 ELSE 0

RECURSIVE BigramMatches(_, _)
\* the matches the exec loop of lines 956-961 finds from lastIndex i - 1 on
BigramMatches(s, i) ==
  IF i > Len(s) THEN <<>>
  ELSE LET e == BigramEnd(s, i)
       IN IF e > 0 THEN <<SubSeq(s, i, e - 1)>> \o BigramMatches(s, e)
          ELSE BigramMatches(s, i + 1)

\* phrase.split(' ')[0]
FirstSplitBySpace(phrase) ==
  LET sp == {i \in 1..Len(phrase) : phrase[i] = " "}
  IN IF sp = {} THEN phrase
     ELSE SubSeq(phrase, 1, (CHOOSE i \in sp : \A j \in sp : i <= j) - 1)

\* noun.split(' ').length
SplitBySpaceCount(str) == 1 + Cardinality({i \in 1..Len(str) : str[i] = " "})

\* nlp is what the compromise package answers for the text: its nouns, its
\* organizations and its places.  The last word of body and the first filler
\* word may form a two-word match; the filler words among themselves give
\* "x x", too short to be kept.
extractPhrases(text, nlp) ==
  LET low == ToLowerCase(IF text.filler > 0 THEN text.body \o <<" ","x">> ELSE text.body)
      nouns == SelectSeq(nlp.nouns,
                         LAMBDA noun : SplitBySpaceCount(noun) >= 2 /\ Len(noun) > 5)
      bigrams == SelectSeq(BigramMatches(low, 1),
                           LAMBDA phrase : /\ FirstSplitBySpace(phrase) \notin dictionaries.STOP_WORDS
                                           /\ Len(phrase) > 5)
  IN Slice(Dedup([k \in 1..Len(nouns) |-> ToLowerCase(nouns[k])] \o bigrams), 30)

extractEntities(text, nlp) ==
  LET orgs == SelectSeq(nlp.organizations, LAMBDA org : Len(org) > 2)
      places == SelectSeq(nlp.places, LAMBDA place : Len(place) > 2)
  IN Slice([k \in 1..Len(orgs) |-> [type |-> "organization", value |-> orgs[k]]]
           \o [k \in 1..Len(places) |-> [type |-> "place", value |-> places[k]]], 20)

\* !text || text.trim().length === 0
IsBlank(text) == text.filler = 0 /\ \A i \in 1..Len(text.body) : IsSpace(text.body[i])

\* lines 834-851, from the five extractions of lines 827-831
KeywordsOf(tfidfKeywords, skills, actionVerbs, phrases, entities) ==
  LET allKeywords == Dedup(tfidfKeywords
                           \o [k \in 1..Len(skills) |-> skills[k].skill]
                           \o phrases)
  IN [keywords |-> allKeywords,
      skills |-> skills,
      actionVerbs |-> actionVerbs,
      phrases |-> phrases,
      entities |-> entities,
      metadata |-> [totalKeywords |-> Len(allKeywords),
                    skillsCount |-> Len(skills),
                    actionVerbsCount |-> Len(actionVerbs)]]

\* extractKeywords returning a blank text as its only keyword
extractKeywordsKeepsBlankText(text, nlp) ==
  IF IsBlank(text)
  THEN [keywords |-> <<text.body>>, skills |-> <<>>, actionVerbs |-> <<>>,
        phrases |-> <<>>, entities |-> <<>>]
  ELSE KeywordsOf(extractTFIDFKeywords(text),
                  extractSkills(TextToLowerCase(text)),
                  extractActionVerbs(TextToLowerCase(text)),
                  extractPhrases(text, nlp),
                  extractEntities(text, nlp))

extractKeywords(text, nlp) ==
  IF IsBlank(text)
  THEN [keywords |-> <<>>, skills |-> <<>>, actionVerbs |-> <<>>,
        phrases |-> <<>>, entities |-> <<>>]
  ELSE KeywordsOf(extractTFIDFKeywords(text),
                  extractSkills(TextToLowerCase(text)),
                  extractActionVerbs(TextToLowerCase(text)),
                  extractPhrases(text, nlp),
                  extractEntities(text, nlp))

--------------------------------------------------------------------------
(* The sub-score calculators, src/services/atsScorer.js:122-430 *)

SkillNames(skills) == [k \in 1..Len(skills) |-> skills[k].skill]

\* calculateKeywordScore adding the bonus whatever the skills match
KeywordScoreOfBonusAlways(cmp, techKeywordsMatch) ==
  LET score == AddCapped(cmp.matchRate, 10)
  IN [score |-> score,
      matched |-> cmp.matchedCount,
      missing |-> cmp.missingCount,
      matchRate |-> Frac(Round(Frac(10 * cmp.matchRate.num, cmp.matchRate.den)), 10),
      matchedKeywords |-> Slice(cmp.matched, 20),
      missingKeywords |-> Slice(cmp.missing, 20)]

\* lines 127-148, from the two comparisons of lines 124 and 130-133
KeywordScoreOf(cmp, techKeywordsMatch) ==
  LET score == IF FracGreater(techKeywordsMatch.matchRate, 70)
               THEN AddCapped(cmp.matchRate, 10)
               ELSE cmp.matchRate
  IN [score |-> score,
      matched |-> cmp.matchedCount,
      missing |-> cmp.missingCount,
      \* Math.round(matchRate * 10) / 10
      matchRate |-> Frac(Round(Frac(10 * cmp.matchRate.num, cmp.matchRate.den)), 10),
      matchedKeywords |-> Slice(cmp.matched, 20),
      missingKeywords |-> Slice(cmp.missing, 20)]

calculateKeywordScore(resumeKeywords, jobKeywords) ==
  KeywordScoreOf(compareKeywords(resumeKeywords.keywords, jobKeywords.keywords),
                 compareKeywords(SkillNames(resumeKeywords.skills),
                                 SkillNames(jobKeywords.skills)))

\* the object built by lines 202-205: the number of matched skills of each
\* category that has one
CategoryCounts(matchedSkills) ==
  [c \in {matchedSkills[k].category : k \in 1..Len(matchedSkills)} |->
     Cardinality({k \in 1..Len(matchedSkills) : matchedSkills[k].category = c})]

\* lines 193-199: the bonus for extra skills
SkillsBonus(coverage, extraSkills) ==
  IF extraSkills > 5 /\ FracGreater(coverage, 50)
  THEN AddCapped(coverage, 10)
  ELSE coverage

\* lines 176-218, from the skills of lines 160-161
SkillsMatchResult(resumeSkills, jobSkills) ==
  LET resumeSkillNames == {ToLowerCase(resumeSkills[k].skill) : k \in 1..Len(resumeSkills)}
      matchedSkills == SelectSeq(jobSkills,
                         LAMBDA jobSkill : ToLowerCase(jobSkill.skill) \in resumeSkillNames)
      missingSkills == SelectSeq(jobSkills,
                         LAMBDA jobSkill : ToLowerCase(jobSkill.skill) \notin resumeSkillNames)
      coverage == IF Len(jobSkills) > 0
                  THEN Percent(Len(matchedSkills), Len(jobSkills))
                  ELSE Frac(0, 1)
      extraSkills == Len(resumeSkills) - Len(matchedSkills)
      score == SkillsBonus(coverage, extraSkills)
  IN [score |-> score,
      coverage |-> Round(coverage),
      criticalMatched |-> Len(matchedSkills),
      analysis |-> [matched |-> Slice(matchedSkills, 15),
                    missing |-> Slice(missingSkills, 10),
                    categories |-> CategoryCounts(matchedSkills),
                    totalResumeSkills |-> Len(resumeSkills),
                    totalJobSkills |-> Len(jobSkills)]]

\* calculateSkillsScore without the test of line 162
SkillsScoreOfNoDefault(resumeSkills, jobSkills) ==
  SkillsMatchResult(resumeSkills, jobSkills)

\* lines 162-218, from the skills of lines 160-161
SkillsScoreOf(resumeSkills, jobSkills) ==
  IF Len(jobSkills) = 0
  THEN [score |-> Frac(75, 1),
        coverage |-> 75,
        criticalMatched |-> 0,
        analysis |-> [matched |-> <<>>, missing |-> <<>>, categories |-> <<>>]]
  ELSE SkillsMatchResult(resumeSkills, jobSkills)

calculateSkillsScore(resumeText, jobDescription) ==
  SkillsScoreOf(extractSkills(TextToLowerCase(resumeText)),
                extractSkills(TextToLowerCase(jobDescription)))

Min(a, b) == IF a <= b THEN a ELSE b
Max(a, b) == IF a >= b THEN a ELSE b

leadershipTerms == <<<<"l","e","d">>, <<"m","a","n","a","g","e","d">>, <<"d","i","r","e","c","t","e","d">>, <<"s","u","p","e","r","v","i","s","e","d">>, <<"m","e","n","t","o","r","e","d">>>>

\* calculateExperienceScore with 0 for a resume that states no years against
\* a job that does
ExperienceScoreOfUnstatedYearsZero(resumeYears, jobYears, actionVerbs, lowerText) ==
  LET base == IF jobYears # 0
              THEN IF resumeYears = 0 THEN 0
                   ELSE IF resumeYears >= jobYears THEN 100
                   ELSE IF 4 * resumeYears >= 3 * jobYears THEN 80
                   ELSE 60
              ELSE IF resumeYears # 0 /\ resumeYears > 0 THEN 85 ELSE 70
      meets == jobYears # 0 /\ resumeYears # 0 /\ 4 * resumeYears >= 3 * jobYears
      withVerbs == IF Len(actionVerbs) >= 5 THEN Min(100, base + 10) ELSE base
      hasLeadership == \E k \in 1..Len(leadershipTerms) :
                         Includes(lowerText, leadershipTerms[k])
      score == IF hasLeadership THEN Min(100, withVerbs + 5) ELSE withVerbs
  IN [score |-> score,
      analysis |-> [resumeYears |-> resumeYears,
                    requiredYears |-> jobYears,
                    meetsRequirement |-> meets,
                    hasActionVerbs |-> Len(actionVerbs) >= 5]]

\* lines 236-283, from the years of lines 230-231 (0 stands for null), the
\* action verbs of line 260 and the lower-case text of line 267
ExperienceScoreOf(resumeYears, jobYears, actionVerbs, lowerText) ==
  LET base == IF jobYears # 0
              THEN IF resumeYears = 0 THEN 50
                   ELSE IF resumeYears >= jobYears THEN 100
                   \* resumeYears >= jobYears * 0.75
                   ELSE IF 4 * resumeYears >= 3 * jobYears THEN 80
                   ELSE 60
              ELSE IF resumeYears # 0 /\ resumeYears > 0 THEN 85 ELSE 70
      meets == jobYears # 0 /\ resumeYears # 0 /\ 4 * resumeYears >= 3 * jobYears
      withVerbs == IF Len(actionVerbs) >= 5 THEN Min(100, base + 10) ELSE base
      hasLeadership == \E k \in 1..Len(leadershipTerms) :
                         Includes(lowerText, leadershipTerms[k])
      score == IF hasLeadership THEN Min(100, withVerbs + 5) ELSE withVerbs
  IN [score |-> score,
      analysis |-> [resumeYears |-> resumeYears,
                    requiredYears |-> jobYears,
                    meetsRequirement |-> meets,
                    hasActionVerbs |-> Len(actionVerbs) >= 5]]

calculateExperienceScore(resumeText, jobDescription) ==
  ExperienceScoreOf(extractYearsOfExperience(resumeText),
                    extractYearsOfExperience(jobDescription),
                    extractActionVerbs(TextToLowerCase(resumeText)),
                    ToLowerCase(resumeText.body))

\* degreeRank[degree] || 0
degreeRank(degree) ==
  CASE degree = "phd" -> 4
    [] degree = "masters" -> 3
    [] degree = "bachelors" -> 2
    [] degree = "associates" -> 1
    [] OTHER -> 0

\* calculateEducationScore without the test of line 315: a resume one rank
\* below the requirement scores like one further below
EducationScoreOfNoOneBelow(resumeEducation, jobEducation) ==
  LET resumeRank == degreeRank(resumeEducation.highestDegree)
      jobRank == degreeRank(jobEducation.highestDegree)
      base == IF jobEducation.highestDegree = "none"
              THEN IF resumeEducation.highestDegree # "none" THEN 90 ELSE 70
              ELSE IF resumeRank >= jobRank THEN 100
                   ELSE IF resumeRank > 0 THEN 60
                   ELSE 40
      fieldMatch == \E k \in 1..Len(jobEducation.fieldOfStudy) :
                      jobEducation.fieldOfStudy[k] \in Range(resumeEducation.fieldOfStudy)
      score == IF fieldMatch THEN Min(100, base + 10) ELSE base
  IN [score |-> score,
      analysis |-> [resume |-> resumeEducation,
                    required |-> jobEducation,
                    meetsRequirement |-> /\ resumeEducation.highestDegree # "none"
                                         /\ jobEducation.highestDegree # "none"
                                         /\ resumeRank >= jobRank]]

\* lines 298-342, from the two detections of lines 295-296
EducationScoreOf(resumeEducation, jobEducation) ==
  LET resumeRank == degreeRank(resumeEducation.highestDegree)
      jobRank == degreeRank(jobEducation.highestDegree)
      base == IF jobEducation.highestDegree = "none"
              THEN IF resumeEducation.highestDegree # "none" THEN 90 ELSE 70
              ELSE IF resumeRank >= jobRank THEN 100
                   ELSE IF resumeRank = jobRank - 1 THEN 75
                   ELSE IF resumeRank > 0 THEN 60
                   ELSE 40
      fieldMatch == \E k \in 1..Len(jobEducation.fieldOfStudy) :
                      jobEducation.fieldOfStudy[k] \in Range(resumeEducation.fieldOfStudy)
      score == IF fieldMatch THEN Min(100, base + 10) ELSE base
  IN [score |-> score,
      analysis |-> [resume |-> resumeEducation,
                    required |-> jobEducation,
                    \* undefined >= undefined is false
                    meetsRequirement |-> /\ resumeEducation.highestDegree # "none"
                                         /\ jobEducation.highestDegree # "none"
                                         /\ resumeRank >= jobRank]]

calculateEducationScore(resumeText, jobDescription) ==
  EducationScoreOf(detectEducation(resumeText), detectEducation(jobDescription))

\* the section patterns of lines 360-365, in the order of the object's keys
SectionPatterns == <<
  [section |-> "contact", missing |-> "Missing contact section",
   present |-> "Contact section present",
   words |-> {<<"e","m","a","i","l">>, <<"p","h","o","n","e">>, <<"a","d","d","r","e","s","s">>, <<"l","i","n","k","e","d","i","n">>}],
  [section |-> "experience", missing |-> "Missing experience section",
   present |-> "Experience section present",
   words |-> {<<"e","x","p","e","r","i","e","n","c","e">>, <<"e","m","p","l","o","y","m","e","n","t">>, <<"w","o","r","k"," ","h","i","s","t","o","r","y">>}],
  [section |-> "education", missing |-> "Missing education section",
   present |-> "Education section present",
   words |-> {<<"e","d","u","c","a","t","i","o","n">>, <<"a","c","a","d","e","m","i","c">>, <<"d","e","g","r","e","e">>}],
  [section |-> "skills", missing |-> "Missing skills section",
   present |-> "Skills section present",
   words |-> {<<"s","k","i","l","l","s">>, <<"t","e","c","h","n","i","c","a","l">>, <<"c","o","m","p","e","t","e","n","c","i","e","s">>}] >>

\* The characters of /[-•*]/ and of /[™®©♦●◆▪]/; a character outside ASCII is
\* written as its name between parentheses.
BulletChars == {"-", "(bullet)", "*"}
SpecialChars == {"(tm)", "(reg)", "(copy)", "(diamond)", "(circle)",
                 "(black diamond)", "(small square)"}

\* resumeText.match(/\n[\s]*[-•*]/g).length: every run of white space that
\* holds a line break and ends before a bullet character gives one match,
\* which starts at the first line break of the run
BulletPointCount(s) ==
  Cardinality({i \in 1..Len(s) :
                 /\ s[i] = "\n"
                 /\ \A k \in 1..(i - 1) :
                      (\A j \in k..(i - 1) : IsSpace(s[j])) => s[k] # "\n"
                 /\ SkipSpaces(s, i + 1) <= Len(s)
                 /\ s[SkipSpaces(s, i + 1)] \in BulletChars})

\* resumeText.match(/\d+[%$]?/g).length
NumberCount(s) == Cardinality(DigitRunStarts(s))

\* calculateFormatScore giving a long resume the 10 points of a short one
FormatScoreOfLongAsShort(resumeText, found) ==
  LET s == resumeText.body
      foundSections == [sec \in {SectionPatterns[k].section : k \in 1..4} |->
                          \E k \in 1..4 : SectionPatterns[k].section = sec /\ found[k]]
      sectionCount == Cardinality({k \in 1..4 : found[k]})
      sectionIssues == Flatten([k \in 1..4 |->
                         IF found[k] THEN <<>> ELSE <<SectionPatterns[k].missing>>])
      sectionStrengths == Flatten([k \in 1..4 |->
                            IF found[k] THEN <<SectionPatterns[k].present>> ELSE <<>>])
      wordCount == WordCount(resumeText)
      optimal == wordCount >= 300 /\ wordCount <= 1000
      bullets == BulletPointCount(s) >= 5
      numbers == NumberCount(s) >= 5
      special == \E i \in 1..Len(s) : s[i] \in SpecialChars
      score == (sectionCount * 40) \div 4
               + (IF optimal THEN 20 ELSE 10)
               + (IF bullets THEN 15 ELSE 5)
               + (IF numbers THEN 15 ELSE 5)
               + (IF special THEN -10 ELSE 10)
      issues == sectionIssues
                \o (IF optimal THEN <<>>
                    ELSE IF wordCount < 300 THEN <<"Resume may be too short">>
                    ELSE <<"Resume may be too long">>)
                \o (IF bullets THEN <<>> ELSE <<"Consider adding more bullet points">>)
                \o (IF numbers THEN <<>> ELSE <<"Add more quantifiable results">>)
                \o (IF special
                    THEN <<"Contains special characters that may confuse ATS">>
                    ELSE <<>>)
      strengths == sectionStrengths
                   \o (IF optimal THEN <<"Optimal resume length">> ELSE <<>>)
                   \o (IF bullets THEN <<"Good use of bullet points">> ELSE <<>>)
                   \o (IF numbers THEN <<"Contains quantifiable achievements">> ELSE <<>>)
                   \o (IF special THEN <<>> ELSE <<"No problematic special characters">>)
  IN [score |-> Max(0, Min(100, score)),
      sections |-> foundSections,
      analysis |-> [issues |-> issues, strengths |-> strengths]]

\* lines 367-429, from the results found of the four section tests of line 371
FormatScoreOf(resumeText, found) ==
  LET s == resumeText.body
      foundSections == [sec \in {SectionPatterns[k].section : k \in 1..4} |->
                          \E k \in 1..4 : SectionPatterns[k].section = sec /\ found[k]]
      sectionCount == Cardinality({k \in 1..4 : found[k]})
      sectionIssues == Flatten([k \in 1..4 |->
                         IF found[k] THEN <<>> ELSE <<SectionPatterns[k].missing>>])
      sectionStrengths == Flatten([k \in 1..4 |->
                            IF found[k] THEN <<SectionPatterns[k].present>> ELSE <<>>])
      wordCount == WordCount(resumeText)
      optimal == wordCount >= 300 /\ wordCount <= 1000
      bullets == BulletPointCount(s) >= 5
      numbers == NumberCount(s) >= 5
      special == \E i \in 1..Len(s) : s[i] \in SpecialChars
      score == (sectionCount * 40) \div 4
               + (IF optimal THEN 20 ELSE IF wordCount < 300 THEN 10 ELSE 15)
               + (IF bullets THEN 15 ELSE 5)
               + (IF numbers THEN 15 ELSE 5)
               + (IF special THEN -10 ELSE 10)
      issues == sectionIssues
                \o (IF optimal THEN <<>>
                    ELSE IF wordCount < 300 THEN <<"Resume may be too short">>
                    ELSE <<"Resume may be too long">>)
                \o (IF bullets THEN <<>> ELSE <<"Consider adding more bullet points">>)
                \o (IF numbers THEN <<>> ELSE <<"Add more quantifiable results">>)
                \o (IF special
                    THEN <<"Contains special characters that may confuse ATS">>
                    ELSE <<>>)
      strengths == sectionStrengths
                   \o (IF optimal THEN <<"Optimal resume length">> ELSE <<>>)
                   \o (IF bullets THEN <<"Good use of bullet points">> ELSE <<>>)
                   \o (IF numbers THEN <<"Contains quantifiable achievements">> ELSE <<>>)
                   \o (IF special THEN <<>> ELSE <<"No problematic special characters">>)
  IN [score |-> Max(0, Min(100, score)),
      sections |-> foundSections,
      analysis |-> [issues |-> issues, strengths |-> strengths]]

calculateFormatScore(resumeText) ==
  FormatScoreOf(resumeText, <<TestAny(resumeText.body, SectionPatterns[1].words),
                              TestAny(resumeText.body, SectionPatterns[2].words),
                              TestAny(resumeText.body, SectionPatterns[3].words),
                              TestAny(resumeText.body, SectionPatterns[4].words)>>)

--------------------------------------------------------------------------
(* The derived metrics, src/services/atsScorer.js:439-582 *)

\* whether one of the words follows the run of digits that starts at i, after
\* any white space: /\d+[\s]*(w1|w2|...)/gi
RunThenWord(s, i, words) ==
  \E w \in words : LitAtCI(s, SkipSpaces(s, SkipDigits(s, i)), w)

\* the end of the run of [\s\w] characters that starts at i
SkipSpaceWordChars(s, i) ==
  CHOOSE j \in i..(Len(s) + 1) :
    /\ j = Len(s) + 1 \/ ~(IsSpace(s[j]) \/ IsWordChar(s[j]))
    /\ \A k \in i..(j - 1) : IsSpace(s[k]) \/ IsWordChar(s[k])

\* The end of /increased|decreased|improved|reduced[\s\w]*by[\s]*\d+/gi
\* matched at i, 0 if it does not match there.  The alternation has four
\* branches, and only the last one asks for "by" and a number.  In that
\* branch the greedy [\s\w]* gives back characters until "by", white space and
\* a digit follow: the last such "by" is taken.
AchievementEnd(s, i) ==
  IF LitAtCI(s, i, <<"i","n","c","r","e","a","s","e","d">>) THEN i + 9
  ELSE IF LitAtCI(s, i, <<"d","e","c","r","e","a","s","e","d">>) THEN i + 9
  ELSE IF LitAtCI(s, i, <<"i","m","p","r","o","v","e","d">>) THEN i + 8
  ELSE IF LitAtCI(s, i, <<"r","e","d","u","c","e","d">>)
  THEN LET q == SkipSpaceWordChars(s, i + 7)
           bys == {k \in (i + 7)..q :
                     /\ LitAtCI(s, k, <<"b","y">>)
                     /\ SkipSpaces(s, k + 2) <= Len(s)
                     /\ IsDigit(s[SkipSpaces(s, k + 2)])}
       IN IF bys = {} THEN 0
          ELSE SkipDigits(s, SkipSpaces(s, SetMax(bys) + 2))
  ELSE 0

RECURSIVE AchievementMatches(_, _)
\* text.match(<the pattern above>).length from index i on
AchievementMatches(s, i) ==
  IF i > Len(s) THEN 0
  ELSE LET e == AchievementEnd(s, i)
       IN IF e > 0 THEN 1 + AchievementMatches(s, e)
          ELSE AchievementMatches(s, i + 1)

countQuantifiableAchievements(text) ==
  LET s == text.body
      \* /\d+%/g
      percentages == Cardinality({i \in 2..Len(s) : s[i] = "%" /\ IsDigit(s[i - 1])})
      \* /\$[\d,]+/g
      dollars == Cardinality({i \in 1..(Len(s) - 1) :
                                s[i] = "$" /\ (IsDigit(s[i + 1]) \/ s[i + 1] = ",")})
      large == Cardinality({i \in DigitRunStarts(s) :
                 RunThenWord(s, i, {<<"m","i","l","l","i","o","n">>, <<"t","h","o","u","s","a","n","d">>, <<"b","i","l","l","i","o","n">>})})
      achievements == AchievementMatches(s, 1)
      periods == Cardinality({i \in DigitRunStarts(s) :
                   RunThenWord(s, i, {<<"y","e","a","r","s">>, <<"m","o","n","t","h","s">>, <<"w","e","e","k","s">>, <<"d","a","y","s">>})})
  IN percentages + dollars + large + achievements + periods

\* [a-zA-Z0-9._%+-] and [a-zA-Z0-9.-] of the e-mail pattern
IsEmailLocalChar(c) == IsLetter(c) \/ IsDigit(c) \/ c \in {".", "_", "%", "+", "-"}
IsEmailDomainChar(c) == IsLetter(c) \/ IsDigit(c) \/ c \in {".", "-"}

\* /[a-zA-Z0-9._%+-]+@[a-zA-Z0-9.-]+\.[a-zA-Z]{2,}/.test(s)
HasEmail(s) ==
  \E i \in 2..Len(s) :
    /\ s[i] = "@"
    /\ IsEmailLocalChar(s[i - 1])
    /\ \E j \in (i + 2)..(Len(s) - 2) :
         /\ s[j] = "."
         /\ \A k \in (i + 1)..(j - 1) : IsEmailDomainChar(s[k])
         /\ IsLetter(s[j + 1])
         /\ IsLetter(s[j + 2])

DigitsAt(s, i, n) == i >= 1 /\ i + n - 1 <= Len(s) /\ \A k \in i..(i + n - 1) : IsDigit(s[k])

\* the places where a pattern may go on after an optional character of set
AfterOptional(s, p, set) ==
  {p} \cup (IF p >= 1 /\ p <= Len(s) /\ s[p] \in set THEN {p + 1} ELSE {})

\* /(\+?1[-.\s]?)?\(?\d{3}\)?[-.\s]?\d{3}[-.\s]?\d{4}/.test(s): the optional
\* prefix and parenthesis at the start decide nothing
HasPhone(s) ==
  LET sep == {"-", ".", " ", "\n", "\t"}
  IN \E i \in 1..Len(s) :
       /\ DigitsAt(s, i, 3)
       /\ \E a \in AfterOptional(s, i + 3, {")"}) :
          \E b \in AfterOptional(s, a, sep) :
            /\ DigitsAt(s, b, 3)
            /\ \E c \in AfterOptional(s, b + 3, sep) : DigitsAt(s, c, 4)

checkContactInfo(text) ==
  [hasEmail |-> HasEmail(text.body),
   hasPhone |-> HasPhone(text.body),
   hasLinkedIn |-> IncludesCI(text.body, <<"l","i","n","k","e","d","i","n",".","c","o","m">>),
   hasLocation |-> TestAny(text.body, {<<"c","i","t","y">>, <<"s","t","a","t","e">>, <<"a","d","d","r","e","s","s">>, <<"l","o","c","a","t","i","o","n">>})]

isOptimalLengthNoUpperBound(text) == WordCount(text) >= 300

isOptimalLength(text) == WordCount(text) >= 300 /\ WordCount(text) <= 1000

\* Math.ceil(wordCount / 500)
estimatePages(text) == (WordCount(text) + 499) \div 500

getScoreGradeOffByOne(score) ==
  IF score > 90 THEN "A"
  ELSE IF score > 80 THEN "B"
  ELSE IF score > 70 THEN "C"
  ELSE IF score > 60 THEN "D"
  ELSE "F"

getScoreGrade(score) ==
  IF score >= 90 THEN "A"
  ELSE IF score >= 80 THEN "B"
  ELSE IF score >= 70 THEN "C"
  ELSE IF score >= 60 THEN "D"
  ELSE "F"

--------------------------------------------------------------------------
(* calculateScore, src/services/atsScorer.js:31-112 *)

\* the five objects of lines 35-39
SubScores(resumeText, jobDescription, resumeKeywords, jobKeywords) ==
  [keywordScore |-> calculateKeywordScore(resumeKeywords, jobKeywords),
   skillsScore |-> calculateSkillsScore(resumeText, jobDescription),
   experienceScore |-> calculateExperienceScore(resumeText, jobDescription),
   educationScore |-> calculateEducationScore(resumeText, jobDescription),
   formatScore |-> calculateFormatScore(resumeText)]

WeightedSumEqualWeights(k, s, x, e, f) ==
  Frac(20 * k.num * s.den + 20 * s.num * k.den + (20 * x + 20 * e + 20 * f) * k.den * s.den,
       100 * k.den * s.den)

WeightedSumOfPercents(k, s, x, e, f) ==
  Frac(40 * k.num * s.den + 20 * s.num * k.den + (15 * x + 10 * e + 15 * f) * k.den * s.den,
       k.den * s.den)

\* keyword * 0.40 + skills * 0.20 + experience * 0.15 + education * 0.10
\* + format * 0.15, as an exact fraction.  (The source adds IEEE doubles;
\* the two roundings can differ only when the exact sum ends in .5.)
WeightedSum(k, s, x, e, f) ==
  Frac(40 * k.num * s.den + 20 * s.num * k.den + (15 * x + 10 * e + 15 * f) * k.den * s.den,
       100 * k.den * s.den)


\* Math.round(score * weight / 100) of an integer or fractional score
WeightedScore(score, weight) == Round(Frac(weight * score.num, 100 * score.den))

BreakdownEntry(score, weight) ==
  [score |-> Round(score), weight |-> weight, weightedScore |-> WeightedScore(score, weight)]

\* lines 41-111, from the five objects sub of lines 35-39
CompileResults(sub, resumeText, resumeKeywords) ==
  LET overallScore == Round(WeightedSum(sub.keywordScore.score, sub.skillsScore.score,
                                        sub.experienceScore.score, sub.educationScore.score,
                                        sub.formatScore.score))
      metrics ==
        [keywordsMatched |-> sub.keywordScore.matched,
         keywordsMissing |-> sub.keywordScore.missing,
         matchRate |-> sub.keywordScore.matchRate,
         skillsCoverage |-> sub.skillsScore.coverage,
         criticalSkillsMatched |-> sub.skillsScore.criticalMatched,
         actionVerbsCount |-> Len(resumeKeywords.actionVerbs),
         quantifiableAchievements |-> countQuantifiableAchievements(resumeText),
         resumeLength |-> [words |-> WordCount(resumeText),
                           optimal |-> isOptimalLength(resumeText),
                           pages |-> estimatePages(resumeText)],
         contactInfo |-> checkContactInfo(resumeText),
         sectionsComplete |-> sub.formatScore.sections]
  IN [overallScore |-> overallScore,
      scoreGrade |-> getScoreGrade(overallScore),
      breakdown |->
        [keywordMatch |-> BreakdownEntry(sub.keywordScore.score, 40),
         skillsAlignment |-> BreakdownEntry(sub.skillsScore.score, 20),
         experienceRelevance |-> BreakdownEntry(Frac(sub.experienceScore.score, 1), 15),
         educationMatch |-> BreakdownEntry(Frac(sub.educationScore.score, 1), 10),
         formatReadability |-> BreakdownEntry(Frac(sub.formatScore.score, 1), 15)],
      metrics |-> metrics,
      keywordAnalysis |-> [matched |-> sub.keywordScore.matchedKeywords,
                           missing |-> sub.keywordScore.missingKeywords,
                           matchRate |-> sub.keywordScore.matchRate],
      skillsAnalysis |-> sub.skillsScore.analysis,
      formatAnalysis |-> sub.formatScore.analysis]

calculateScore(resumeText, jobDescription, resumeKeywords, jobKeywords) ==
  CompileResults(SubScores(resumeText, jobDescription, resumeKeywords, jobKeywords),
                 resumeText, resumeKeywords)

--------------------------------------------------------------------------
(* generateRecommendations, src/services/atsScorer.js:593-718 *)

\* obj && obj.analysis && obj.analysis[field]: a property that an object does
\* not have is undefined, and every array is truthy
HasAnalysisField(obj, field) ==
  /\ "analysis" \in DOMAIN obj
  /\ field \in DOMAIN obj.analysis

Recommendation(priority, category, title, description, action) ==
  [priority |-> priority, category |-> category, title |-> title,
   description |-> description, action |-> action]

\* The recommendations in the order in which lines 596-711 push them.  A
\* description built from the result is the record of the values put into
\* its text.
PushedRecommendations(scoreResults) ==
  LET keyword ==
        IF scoreResults.breakdown.keywordMatch.score < 70
        THEN <<Recommendation("high", "Keywords", "Improve Keyword Match",
                 [matchRate |-> Round(scoreResults.keywordAnalysis.matchRate),
                  keywords |-> Slice(Slice(scoreResults.keywordAnalysis.missing, 10), 5)],
                 "Naturally incorporate missing keywords into your experience and skills sections")>>
        ELSE <<>>
      skills ==
        IF /\ scoreResults.breakdown.skillsAlignment.score < 70
           /\ HasAnalysisField(scoreResults.skillsAnalysis, "missing")
           /\ Len(Slice(scoreResults.skillsAnalysis.analysis.missing, 5)) > 0
        THEN <<Recommendation("high", "Skills", "Add Missing Technical Skills",
                 [skills |-> SkillNames(Slice(scoreResults.skillsAnalysis.analysis.missing, 5))],
                 "Add a dedicated skills section or incorporate these skills into your experience descriptions")>>
        ELSE <<>>
      verbs ==
        IF scoreResults.metrics.actionVerbsCount < 5
        THEN <<Recommendation("medium", "Experience", "Use More Action Verbs",
                 [count |-> scoreResults.metrics.actionVerbsCount],
                 "Start experience bullet points with verbs like: Developed, Implemented, Led, Achieved, Optimized")>>
        ELSE <<>>
      impact ==
        IF scoreResults.metrics.quantifiableAchievements < 3
        THEN <<Recommendation("high", "Impact", "Add Quantifiable Results",
                 "Your resume lacks measurable achievements. Numbers make your impact concrete.",
                 "Add metrics: \"Increased sales by 30%\", \"Managed team of 5\", \"Reduced costs by $50K\"")>>
        ELSE <<>>
      format ==
        IF /\ scoreResults.breakdown.formatReadability.score < 70
           /\ HasAnalysisField(scoreResults.formatAnalysis, "issues")
           /\ Len(scoreResults.formatAnalysis.analysis.issues) > 0
        THEN <<Recommendation("medium", "Format", "Improve ATS Readability",
                 [issues |-> scoreResults.formatAnalysis.analysis.issues],
                 "Use standard section headers, add bullet points, and ensure all sections are present")>>
        ELSE <<>>
      length ==
        IF ~scoreResults.metrics.resumeLength.optimal
        THEN IF scoreResults.metrics.resumeLength.words < 300
             THEN <<Recommendation("medium", "Length", "Expand Your Resume",
                      "Your resume is too brief. Add more detail about your experiences and achievements.",
                      "Aim for 400-800 words (1-2 pages). Add more bullet points to each role.")>>
             ELSE <<Recommendation("low", "Length", "Consider Condensing",
                      "Your resume is quite long. Focus on most relevant and recent experiences.",
                      "Aim for 1-2 pages. Remove older or less relevant experiences.")>>
        ELSE <<>>
      contactInfo == scoreResults.metrics.contactInfo
      missingContact == (IF ~contactInfo.hasEmail THEN <<"email">> ELSE <<>>)
                        \o (IF ~contactInfo.hasPhone THEN <<"phone">> ELSE <<>>)
                        \o (IF ~contactInfo.hasLinkedIn THEN <<"LinkedIn">> ELSE <<>>)
      contact ==
        IF Len(missingContact) > 0
        THEN <<Recommendation("high", "Contact", "Complete Contact Information",
                 [missing |-> missingContact],
                 "Add all contact methods at the top of your resume")>>
        ELSE <<>>
      education ==
        IF scoreResults.breakdown.educationMatch.score < 70
        THEN <<Recommendation("medium", "Education", "Highlight Education",
                 "Ensure your education section clearly states your degree and field of study",
                 "Use clear format: \"Bachelor of Science in Computer Science, University Name, Year\"")>>
        ELSE <<>>
  IN keyword \o skills \o verbs \o impact \o format \o length \o contact \o education

priorityOrder(priority) ==
  CASE priority = "high" -> 0
    [] priority = "medium" -> 1
    [] priority = "low" -> 2

ByPriorityReversed(a, b) == priorityOrder(b.priority) - priorityOrder(a.priority)

ByPriority(a, b) == priorityOrder(a.priority) - priorityOrder(b.priority)

\* recommendations.sort(...) of line 715
SortByPriority(pushed) ==
  Sort([i \in 1..Len(pushed) |->
          [j \in 1..Len(pushed) |-> ByPriority(pushed[i], pushed[j])]],
       pushed)

\* generateRecommendations returning no more than three recommendations
generateRecommendationsTopThree(scoreResults) ==
  Slice(SortByPriority(PushedRecommendations(scoreResults)), 3)

generateRecommendations(scoreResults) ==
  SortByPriority(PushedRecommendations(scoreResults))

--------------------------------------------------------------------------
(* The page script, src/unnamed/part_001: validateInputs, displayResults and *)
(* the end of analyzeResume                                                 *)

\* lines 184-189: the value of analyzeBtn.disabled that validateInputs sets
validateInputs(file, value) == ~(file # <<>> /\ ~IsBlank(value))

\* the six calls of displayResults, lines 261-277, by the property of data
\* each one is given
DisplaySteps == <<"overallScore", "scoreBreakdown", "metrics",
                  "keywordAnalysis", "skillsAnalysis", "recommendations">>

\* whether a display function raises a TypeError: it reads a property of a
\* value that is undefined.  displayOverallScore only writes its arguments
\* out, and displayRecommendations tests its argument before the loop.
StepThrows(step, data) ==
  CASE step = "scoreBreakdown" ->
         \/ "scoreBreakdown" \notin DOMAIN data
         \/ \E part \in {"keywordMatch", "skillsAlignment", "experienceRelevance",
                         "educationMatch", "formatReadability"} :
              part \notin DOMAIN data.scoreBreakdown
    [] step = "metrics" ->
         \/ "metrics" \notin DOMAIN data
         \/ "resumeLength" \notin DOMAIN data.metrics
    [] step = "keywordAnalysis" ->
         \/ "keywordAnalysis" \notin DOMAIN data
         \/ "matched" \notin DOMAIN data.keywordAnalysis
         \/ "missing" \notin DOMAIN data.keywordAnalysis
    \* lines 499 and 505: skillsAnalysis.coverage, skillsAnalysis.analysis.matched
    [] step = "skillsAnalysis" ->
         \/ "skillsAnalysis" \notin DOMAIN data
         \/ "analysis" \notin DOMAIN data.skillsAnalysis
    [] OTHER -> FALSE

\* lines 257-278: the steps that ran to their end, and whether one threw
displayResults(data) ==
  LET throwers == {k \in 1..Len(DisplaySteps) : StepThrows(DisplaySteps[k], data)}
      first == IF throwers = {} THEN Len(DisplaySteps) + 1
               ELSE CHOOSE k \in throwers : \A j \in throwers : k <= j
  IN [steps |-> SubSeq(DisplaySteps, 1, first - 1), threw |-> throwers # {}]

\* lines 221-251 of analyzeResume, after the await: the response resp has
\* arrived (status 0: fetch was rejected).  A status outside 200..299, a body
\* without success and an error thrown by displayResults end in the catch
\* block, which shows the error message; finally enables the button.
AnalyzeSettled(resp) ==
  /\ pendingRequests > 0
  /\ pendingRequests' = pendingRequests - 1
  /\ IF resp.status \in 200..299 /\ resp.body.success
     THEN /\ currentAnalysis' = resp.body.data
          /\ resultsShown' = TRUE
          /\ displayedSteps' = displayResults(resp.body.data).steps
          /\ errorShown' = (errorShown \/ displayResults(resp.body.data).threw)
     ELSE /\ errorShown' = TRUE
          /\ UNCHANGED <<currentAnalysis, resultsShown, displayedSteps>>
  /\ analyzeBtnDisabled' = FALSE
  /\ UNCHANGED <<selectedFile, jobDescriptionValue>>

\* the page as it is loaded: no file, an empty job description, the Analyze
\* button disabled, nothing shown and no request
NoPage ==
  /\ selectedFile = <<>>
  /\ jobDescriptionValue = Text(<<>>, 0)
  /\ analyzeBtnDisabled = TRUE
  /\ errorShown = FALSE
  /\ resultsShown = FALSE
  /\ currentAnalysis = <<>>
  /\ displayedSteps = <<>>
  /\ pendingRequests = 0

--------------------------------------------------------------------------
(* The comparator on its own: any two keyword sequences *)

MaxKeywords == 2

\* keywords the two arguments are drawn from: equal up to case (a, A),
\* contained in one another (a, ab, B) and unrelated (c)
KeywordPool == { <<"a">>, <<"A">>, <<"a", "b">>, <<"B">>, <<"c">> }

KeywordLists == UNION { [1..n -> KeywordPool] : n \in 0..MaxKeywords }

\* no upload is being handled
NoRequest ==
  /\ reqFile = FALSE /\ fileOnDisk = FALSE /\ filePath = "null"
  /\ cleanupCalls = 0 /\ response = <<>>

\* the three objects as lines 750-808 build them
Dictionaries ==
  [TECHNICAL_SKILLS |-> TECHNICAL_SKILLS,
   ACTION_VERBS |-> ACTION_VERBS,
   STOP_WORDS |-> STOP_WORDS]

NoComparison == [matched |-> <<>>, missing |-> <<>>, matchRate |-> Frac(0, 1),
                 totalJobKeywords |-> 0, matchedCount |-> 0, missingCount |-> 0]

InitCompare ==
  /\ ckResumeKeywords \in KeywordLists
  /\ ckJobKeywords \in KeywordLists
  /\ comparison = NoComparison
  /\ ckPc = "call"
  /\ reqResumeText = <<>> /\ reqJobDescription = <<>> /\ nlpReading = "nothing"
  /\ reqResumeKeywords = <<>> /\ reqJobKeywords = <<>> /\ subScores = <<>>
  /\ reqScoreResults = <<>> /\ recommendations = <<>> /\ gradeArg = 0 /\ pc = "idle"
  /\ NoRequest
  /\ NoPage
  /\ dictionaries = Dictionaries

CallCompareKeywords ==
  /\ ckPc = "call"
  /\ comparison' = compareKeywords(ckResumeKeywords, ckJobKeywords)
  /\ ckPc' = "done"
  /\ UNCHANGED <<ckResumeKeywords, ckJobKeywords>>
  /\ UNCHANGED <<vars, hVars, dictionaries, pageVars>>

NextCompare == CallCompareKeywords

SpecCompare == InitCompare /\ [][NextCompare]_allVars

--------------------------------------------------------------------------
(* One analysis: the steps 2 to 4 of POST /api/analyze, src/server.js:130-138, *)
(* and getScoreGrade called on its own                                        *)

MaxResumeParts == 2
MaxJobParts == 1

\* what resumes are made of: skills, years, achievement verbs, action verbs
\* with leadership terms, a measured result, contact data, section headers,
\* bullet lines, a degree with a field, a special character, numbers
ResumeParts == <<
  <<"P","y","t","h","o","n"," ","S","Q","L">>,
  <<"5"," ","y","e","a","r","s"," ","e","x","p","e","r","i","e","n","c","e">>,
  <<"i","n","c","r","e","a","s","e","d"," ","i","m","p","r","o","v","e","d"," ","i","n","c","r","e","a","s","e","d">>,
  <<"l","e","d"," ","m","a","n","a","g","e","d"," ","b","u","i","l","t"," ","c","r","e","a","t","e","d"," ","d","e","s","i","g","n","e","d">>,
  <<"r","e","d","u","c","e","d"," ","c","o","s","t","s"," ","b","y"," ","3","0","%">>,
  <<"a","@","b",".","c","o"," ","5","5","5","-","1","2","3","-","4","5","6","7"," ","l","i","n","k","e","d","i","n",".","c","o","m">>,
  <<"e","m","a","i","l"," ","a","@","b",".","c","o"," ","e","x","p","e","r","i","e","n","c","e"," ","e","d","u","c","a","t","i","o","n"," ","s","k","i","l","l","s">>,
  <<"\n","-"," ","a","\n","-"," ","b","\n","*"," ","c","\n","-"," ","d","\n","-"," ","e">>,
  <<"b","a","c","h","e","l","o","r","'","s"," ","c","o","m","p","u","t","e","r"," ","s","c","i","e","n","c","e">>,
  <<"(tm)">>,
  <<"1"," ","2"," ","3"," ","4"," ","5">> >>

JobParts == <<
  <<"p","y","t","h","o","n"," ","s","q","l"," ","a","w","s">>,
  <<"p","y","t","h","o","n">>,
  <<"3","+"," ","y","e","a","r","s"," ","e","x","p","e","r","i","e","n","c","e">>,
  <<"b","a","c","h","e","l","o","r","'","s"," ","d","e","g","r","e","e"," ","c","o","m","p","u","t","e","r"," ","s","c","i","e","n","c","e">>,
  <<"m","a","s","t","e","r","'","s"," ","p","y","t","h","o","n">> >>

\* numbers of filler words: with them a resume is short, has 299, 300 or more
\* words, or has 1000, 1001 or more words
Fillers == {0, 298, 999}

RECURSIVE JoinParts(_, _)
\* the parts whose indices are in S, in increasing order, joined by spaces
JoinParts(parts, S) ==
  IF S = {} THEN <<>>
  ELSE LET i == CHOOSE x \in S : \A y \in S : x <= y
       IN IF S = {i} THEN parts[i] ELSE parts[i] \o <<" ">> \o JoinParts(parts, S \ {i})

Bodies(parts, max) ==
  {JoinParts(parts, S) : S \in {T \in SUBSET (1..Len(parts)) : Cardinality(T) <= max}}

ResumeTexts == {Text(b, f) : b \in Bodies(ResumeParts, MaxResumeParts), f \in Fillers}
JobTexts == {Text(b, 0) : b \in Bodies(JobParts, MaxJobParts)}

\* The compromise package is outside the repository.  It is one fixed
\* function of the text; the model takes it to be one of two: it finds
\* nothing, or it reports the first two words of a text as a noun phrase and
\* the first word as an organization.
NlpReadings == {"nothing", "first words"}

Nlp(reading, text) ==
  LET s == text.body
      starts == {i \in 1..Len(s) : IsWordChar(s[i]) /\ (i = 1 \/ ~IsWordChar(s[i - 1]))}
      first == Ascending(starts)[1]
      second == Ascending(starts)[2]
  IN IF reading = "nothing" \/ Cardinality(starts) < 2
     THEN [nouns |-> <<>>, organizations |-> <<>>, places |-> <<>>]
     ELSE [nouns |-> <<SubSeq(s, first, SkipWordChars(s, second) - 1)>>,
           organizations |-> <<SubSeq(s, first, SkipWordChars(s, first) - 1)>>,
           places |-> <<>>]

NoKeywords == [keywords |-> <<>>, skills |-> <<>>, actionVerbs |-> <<>>,
               phrases |-> <<>>, entities |-> <<>>]

Init ==
  /\ \/ /\ pc = "extract"
        /\ reqResumeText \in ResumeTexts
        /\ reqJobDescription \in JobTexts
        /\ nlpReading \in NlpReadings
        /\ gradeArg = 0
     \/ /\ pc = "grade"
        /\ reqResumeText = Text(<<>>, 0)
        /\ reqJobDescription = Text(<<>>, 0)
        /\ nlpReading = "nothing"
        /\ gradeArg \in 0..100
  /\ reqResumeKeywords = NoKeywords
  /\ reqJobKeywords = NoKeywords
  /\ subScores = <<>>
  /\ reqScoreResults = <<>>
  /\ recommendations = <<>>
  /\ ckResumeKeywords = <<>> /\ ckJobKeywords = <<>>
  /\ comparison = NoComparison /\ ckPc = "idle"
  /\ NoRequest
  /\ NoPage
  /\ dictionaries = Dictionaries

\* src/server.js:131-132
ExtractKeywords ==
  /\ pc = "extract"
  /\ reqResumeKeywords' = extractKeywords(reqResumeText, Nlp(nlpReading, reqResumeText))
  /\ reqJobKeywords' = extractKeywords(reqJobDescription, Nlp(nlpReading, reqJobDescription))
  /\ pc' = "score"
  /\ UNCHANGED <<reqResumeText, reqJobDescription, nlpReading, subScores, reqScoreResults,
                 recommendations, gradeArg>>
  /\ UNCHANGED <<ckVars, hVars, dictionaries, pageVars>>

\* calculateScore cutting the resume's keyword list down to the 20 it reports
CalculateScoreTruncatesKeywords ==
  /\ pc = "score"
  /\ subScores' = SubScores(reqResumeText, reqJobDescription, reqResumeKeywords,
                            reqJobKeywords)
  /\ reqScoreResults' = CompileResults(subScores', reqResumeText, reqResumeKeywords)
  /\ reqResumeKeywords' = [reqResumeKeywords EXCEPT !.keywords = Slice(@, 1)]
  /\ pc' = "recommend"
  /\ UNCHANGED <<reqResumeText, reqJobDescription, nlpReading, reqJobKeywords,
                 recommendations, gradeArg>>
  /\ UNCHANGED <<ckVars, hVars, dictionaries, pageVars>>

\* src/server.js:135
CalculateScore ==
  /\ pc = "score"
  /\ subScores' = SubScores(reqResumeText, reqJobDescription, reqResumeKeywords,
                            reqJobKeywords)
  /\ reqScoreResults' = CompileResults(subScores', reqResumeText, reqResumeKeywords)
  /\ pc' = "recommend"
  /\ UNCHANGED <<reqResumeText, reqJobDescription, nlpReading, reqResumeKeywords, reqJobKeywords,
                 recommendations, gradeArg>>
  /\ UNCHANGED <<ckVars, hVars, dictionaries, pageVars>>

\* src/server.js:138
GenerateRecommendations ==
  /\ pc = "recommend"
  /\ recommendations' = generateRecommendations(reqScoreResults)
  /\ pc' = "done"
  /\ UNCHANGED <<reqResumeText, reqJobDescription, nlpReading, reqResumeKeywords, reqJobKeywords,
                 subScores, reqScoreResults, gradeArg>>
  /\ UNCHANGED <<ckVars, hVars, dictionaries, pageVars>>

\* getScoreGrade(gradeArg), its result kept as the grade of a result object
CallGetScoreGrade ==
  /\ pc = "grade"
  /\ reqScoreResults' = [overallScore |-> gradeArg, scoreGrade |-> getScoreGrade(gradeArg)]
  /\ pc' = "graded"
  /\ UNCHANGED <<reqResumeText, reqJobDescription, nlpReading, reqResumeKeywords, reqJobKeywords,
                 subScores, recommendations, gradeArg>>
  /\ UNCHANGED <<ckVars, hVars, dictionaries, pageVars>>

Next ==
  \/ ExtractKeywords
  \/ CalculateScore
  \/ GenerateRecommendations
  \/ CallGetScoreGrade

Spec == Init /\ [][Next]_allVars

--------------------------------------------------------------------------
(* POST /api/analyze, src/server.js:95-178: one request from the call of    *)
(* the handler to the response                                              *)

\* the texts parseResume returns: trimmed and not short
ParsedTexts == {Text(b, 298) : b \in Bodies(ResumeParts, 1) \ {<<>>}}

\* req.body.jobDescription: missing or empty, blank, or a job text
PostedJobTexts == JobTexts \cup {Text(<<" ">>, 0)}

InitRequest ==
  /\ pc = "validate"
  /\ reqFile \in BOOLEAN
  /\ fileOnDisk = reqFile
  /\ filePath = "null"
  /\ cleanupCalls = 0
  /\ response = <<>>
  /\ reqJobDescription \in PostedJobTexts
  /\ reqResumeText = Text(<<>>, 0)
  /\ nlpReading \in NlpReadings
  /\ gradeArg = 0
  /\ reqResumeKeywords = NoKeywords
  /\ reqJobKeywords = NoKeywords
  /\ subScores = <<>>
  /\ reqScoreResults = <<>>
  /\ recommendations = <<>>
  /\ ckResumeKeywords = <<>> /\ ckJobKeywords = <<>>
  /\ comparison = NoComparison /\ ckPc = "idle"
  /\ dictionaries = Dictionaries
  \* the page sends a request only with a file and a job description that is
  \* not blank (lines 197-200); it has then disabled the button (line 207)
  /\ selectedFile = IF reqFile THEN [extension |-> ".pdf", size |-> 1024] ELSE <<>>
  /\ jobDescriptionValue = reqJobDescription
  /\ pendingRequests = IF reqFile /\ ~IsBlank(reqJobDescription) THEN 1 ELSE 0
  /\ analyzeBtnDisabled = TRUE
  /\ errorShown = FALSE
  /\ resultsShown = FALSE
  /\ currentAnalysis = <<>>
  /\ displayedSteps = <<>>

ErrorResponse(status, error) ==
  [sent |-> TRUE, status |-> status, body |-> [success |-> FALSE, error |-> error]]

\* lines 96-117: the two validations, then filePath = req.file.path
ValidateInputs ==
  /\ pc = "validate"
  /\ IF ~reqFile
     THEN /\ response' = ErrorResponse(400, "No resume file uploaded")
          /\ pc' = "sent"
          /\ UNCHANGED filePath
     ELSE IF IsBlank(reqJobDescription)
     THEN /\ response' = ErrorResponse(400, "Job description is required")
          /\ pc' = "sent"
          /\ UNCHANGED filePath
     ELSE /\ filePath' = "path"
          /\ pc' = "parse"
          /\ UNCHANGED response
  /\ UNCHANGED <<reqFile, fileOnDisk, cleanupCalls>>
  /\ UNCHANGED <<reqResumeText, reqJobDescription, nlpReading, reqResumeKeywords,
                 reqJobKeywords, subScores, reqScoreResults, recommendations, gradeArg>>
  /\ UNCHANGED <<ckVars, dictionaries, pageVars>>

\* lines 123-127: parseResume returns a text or throws; a blank text throws
ParseResume ==
  /\ pc = "parse"
  /\ \/ \E text \in ParsedTexts :
          IF IsBlank(text)
          THEN pc' = "catch" /\ UNCHANGED reqResumeText
          ELSE pc' = "extract" /\ reqResumeText' = text
     \/ pc' = "catch" /\ UNCHANGED reqResumeText
  /\ UNCHANGED hVars
  /\ UNCHANGED <<reqJobDescription, nlpReading, reqResumeKeywords, reqJobKeywords,
                 subScores, reqScoreResults, recommendations, gradeArg>>
  /\ UNCHANGED <<ckVars, dictionaries, pageVars>>

\* lines 70-78: fs.unlink removes the file, or fails and the error is logged
cleanupFile(onDisk, unlinked) == IF unlinked THEN FALSE ELSE onDisk

\* lines 143-157: the data of the response.  The model of calculateScore
\* leaves out contentQuality, and so does data.
ResponseData(scoreResults, recs) ==
  [overallScore |-> scoreResults.overallScore,
   scoreBreakdown |-> scoreResults.breakdown,
   metrics |-> scoreResults.metrics,
   keywordAnalysis |-> [matched |-> scoreResults.keywordAnalysis.matched,
                        missing |-> scoreResults.keywordAnalysis.missing,
                        matchRate |-> scoreResults.keywordAnalysis.matchRate],
   skillsAnalysis |-> scoreResults.skillsAnalysis,
   formatAnalysis |-> scoreResults.formatAnalysis,
   recommendations |-> recs,
   timestamp |-> "now"]

\* lines 141-161: the response object, then cleanupFile(filePath)
CompileResponse ==
  /\ pc = "done"
  /\ response' = [sent |-> FALSE, status |-> 200,
                  body |-> [success |-> TRUE,
                            data |-> ResponseData(reqScoreResults, recommendations)]]
  /\ \E unlinked \in BOOLEAN : fileOnDisk' = cleanupFile(fileOnDisk, unlinked)
  /\ cleanupCalls' = cleanupCalls + 1
  /\ pc' = "send"
  /\ UNCHANGED <<reqFile, filePath>>
  /\ UNCHANGED <<reqResumeText, reqJobDescription, nlpReading, reqResumeKeywords,
                 reqJobKeywords, subScores, reqScoreResults, recommendations, gradeArg>>
  /\ UNCHANGED <<ckVars, dictionaries, pageVars>>

\* line 163: res.json(response)
SendResponse ==
  /\ pc = "send"
  /\ response' = [response EXCEPT !.sent = TRUE]
  /\ pc' = "sent"
  /\ UNCHANGED <<reqFile, fileOnDisk, filePath, cleanupCalls>>
  /\ UNCHANGED <<reqResumeText, reqJobDescription, nlpReading, reqResumeKeywords,
                 reqJobKeywords, subScores, reqScoreResults, recommendations, gradeArg>>
  /\ UNCHANGED <<ckVars, dictionaries, pageVars>>

\* lines 165-177: the catch block
CatchError ==
  /\ pc = "catch"
  /\ IF filePath # "null"
     THEN /\ \E unlinked \in BOOLEAN : fileOnDisk' = cleanupFile(fileOnDisk, unlinked)
          /\ cleanupCalls' = cleanupCalls + 1
     ELSE UNCHANGED <<fileOnDisk, cleanupCalls>>
  /\ response' = ErrorResponse(500, "error.message")
  /\ pc' = "sent"
  /\ UNCHANGED <<reqFile, filePath>>
  /\ UNCHANGED <<reqResumeText, reqJobDescription, nlpReading, reqResumeKeywords,
                 reqJobKeywords, subScores, reqScoreResults, recommendations, gradeArg>>
  /\ UNCHANGED <<ckVars, dictionaries, pageVars>>

\* the page that sent the request receives the response
PageReceivesResponse ==
  /\ pc = "sent"
  /\ AnalyzeSettled(response)
  /\ pc' = "received"
  /\ UNCHANGED <<reqResumeText, reqJobDescription, nlpReading, reqResumeKeywords,
                 reqJobKeywords, subScores, reqScoreResults, recommendations, gradeArg>>
  /\ UNCHANGED <<ckVars, hVars, dictionaries>>

NextRequest ==
  \/ PageReceivesResponse
  \/ ValidateInputs
  \/ ParseResume
  \/ ExtractKeywords
  \/ CalculateScore
  \/ GenerateRecommendations
  \/ CompileResponse
  \/ SendResponse
  \/ CatchError

SpecRequest == InitRequest /\ [][NextRequest]_allVars

--------------------------------------------------------------------------
(* extractKeywords, calculateSkillsScore and calculateEducationScore, each   *)
(* called on its own with two strings                                        *)

\* what the first string is made of: two skills, five other skills, six other
\* skills, white space, a degree with a field, a field without a degree,
\* years of experience and a skill of two categories, five action verbs, a
\* leadership term inside a word and skills written with other characters
\* than letters
CallResumeParts == <<
  <<"5"," ","y","e","a","r","s"," ","w","i","t","h"," ","c","i","/","c","d">>,
  <<"d","e","v","e","l","o","p","e","d"," ","i","m","p","l","e","m","e","n","t","e","d"," ","d","e","s","i","g","n","e","d"," ","c","r","e","a","t","e","d"," ","b","u","i","l","t">>,
  <<"s","c","h","e","d","u","l","e","d"," ","c","+","+"," ","c","#"," ",".","n","e","t">>,
  <<"P","y","t","h","o","n"," ","S","Q","L">>,
  <<"j","a","v","a"," ","r","e","a","c","t"," ","d","o","c","k","e","r"," ","g","i","t"," ","r","e","d","i","s">>,
  <<"j","a","v","a"," ","r","e","a","c","t"," ","d","o","c","k","e","r"," ","g","i","t"," ","r","e","d","i","s"," ","r","u","s","t">>,
  <<" ">>,
  <<"\n","\t">>,
  <<"b","a","c","h","e","l","o","r","'","s"," ","c","o","m","p","u","t","e","r"," ","s","c","i","e","n","c","e">>,
  <<"c","o","m","p","u","t","e","r"," ","s","c","i","e","n","c","e">> >>

\* what the second string is made of: three skills, one skill, degree
\* requirements of four ranks, and requirements of 3, 6, 7 and 0 years
CallJobParts == <<
  <<"3","+"," ","y","e","a","r","s"," ","e","x","p","e","r","i","e","n","c","e">>,
  <<"e","x","p","e","r","i","e","n","c","e",":"," ","6"," ","y","e","a","r","s">>,
  <<"7"," ","y","e","a","r","s"," ","i","n">>,
  <<"0","+"," ","y","e","a","r","s"," ","o","f"," ","e","x","p","e","r","i","e","n","c","e">>,
  <<"p","h","d"," ","c","o","m","p","u","t","e","r"," ","s","c","i","e","n","c","e">>,
  <<"p","y","t","h","o","n"," ","s","q","l"," ","a","w","s">>,
  <<"p","y","t","h","o","n">>,
  <<"a","s","s","o","c","i","a","t","e","'","s"," ","d","e","g","r","e","e">>,
  <<"m","a","s","t","e","r","'","s">>,
  <<"b","a","c","h","e","l","o","r","'","s"," ","d","e","g","r","e","e"," ","c","o","m","p","u","t","e","r"," ","s","c","i","e","n","c","e">> >>

CallResumeTexts == {Text(b, 0) : b \in Bodies(CallResumeParts, MaxResumeParts)}
CallJobTexts == {Text(b, 0) : b \in Bodies(CallJobParts, MaxJobParts)}

InitCalls ==
  /\ pc = "call"
  /\ reqResumeText \in CallResumeTexts
  /\ reqJobDescription \in CallJobTexts
  /\ nlpReading \in NlpReadings
  /\ gradeArg = 0
  /\ reqResumeKeywords = <<>>
  /\ reqJobKeywords = <<>>
  /\ subScores = <<>>
  /\ reqScoreResults = <<>>
  /\ recommendations = <<>>
  /\ ckResumeKeywords = <<>> /\ ckJobKeywords = <<>>
  /\ comparison = NoComparison /\ ckPc = "idle"
  /\ NoRequest
  /\ NoPage
  /\ dictionaries = Dictionaries

\* extractKeywords(reqResumeText)
CallExtractKeywords ==
  /\ pc = "call"
  /\ reqResumeKeywords' = extractKeywords(reqResumeText, Nlp(nlpReading, reqResumeText))
  /\ pc' = "extracted"
  /\ UNCHANGED <<reqResumeText, reqJobDescription, nlpReading, reqJobKeywords, subScores,
                 reqScoreResults, recommendations, gradeArg>>
  /\ UNCHANGED <<ckVars, hVars, dictionaries, pageVars>>

\* calculateSkillsScore(reqResumeText, reqJobDescription)
CallCalculateSkillsScore ==
  /\ pc = "call"
  /\ subScores' = [skillsScore |-> calculateSkillsScore(reqResumeText, reqJobDescription)]
  /\ pc' = "skills"
  /\ UNCHANGED <<reqResumeText, reqJobDescription, nlpReading, reqResumeKeywords,
                 reqJobKeywords, reqScoreResults, recommendations, gradeArg>>
  /\ UNCHANGED <<ckVars, hVars, dictionaries, pageVars>>

\* calculateEducationScore(reqResumeText, reqJobDescription)
CallCalculateEducationScore ==
  /\ pc = "call"
  /\ subScores' = [educationScore |-> calculateEducationScore(reqResumeText,
                                                              reqJobDescription)]
  /\ pc' = "education"
  /\ UNCHANGED <<reqResumeText, reqJobDescription, nlpReading, reqResumeKeywords,
                 reqJobKeywords, reqScoreResults, recommendations, gradeArg>>
  /\ UNCHANGED <<ckVars, hVars, dictionaries, pageVars>>

\* calculateExperienceScore(reqResumeText, reqJobDescription)
CallCalculateExperienceScore ==
  /\ pc = "call"
  /\ subScores' = [experienceScore |-> calculateExperienceScore(reqResumeText,
                                                                reqJobDescription)]
  /\ pc' = "experience"
  /\ UNCHANGED <<reqResumeText, reqJobDescription, nlpReading, reqResumeKeywords,
                 reqJobKeywords, reqScoreResults, recommendations, gradeArg>>
  /\ UNCHANGED <<ckVars, hVars, dictionaries, pageVars>>

NextCalls ==
  \/ CallExtractKeywords
  \/ CallCalculateSkillsScore
  \/ CallCalculateEducationScore
  \/ CallCalculateExperienceScore

SpecCalls == InitCalls /\ [][NextCalls]_allVars

--------------------------------------------------------------------------
(* The page, src/unnamed/part_001:1-252 and 647-673: the user selects and   *)
(* removes files, edits the job description and clicks Analyze, and the     *)
(* responses of the requests arrive                                         *)

\* the requests the page may have in flight
MaxPending == 2

\* the files the user offers: a small PDF, a file of another type and a PDF
\* above 5 MB
PageFiles == {[extension |-> ".pdf", size |-> 1024],
              [extension |-> ".exe", size |-> 1024],
              [extension |-> ".pdf", size |-> 5 * 1024 * 1024 + 1]}

\* what the user leaves in the job description: nothing, a blank, a text
JobDescriptionValues == {Text(<<>>, 0), Text(<<" ">>, 0), Text(JobParts[2], 0)}

\* sampleJobDescriptions[sampleKey].description
SampleDescription == Text(JobParts[1], 0)

\* the 200 response of the handler for a resume and a job description
AnalysisResponse(scoreResults) ==
  [sent |-> TRUE, status |-> 200,
   body |-> [success |-> TRUE,
             data |-> ResponseData(scoreResults, generateRecommendations(scoreResults))]]

AnalysisOf(resumeText, jobDescription) ==
  AnalysisResponse(
    calculateScore(resumeText, jobDescription,
                   extractKeywords(resumeText, Nlp("nothing", resumeText)),
                   extractKeywords(jobDescription, Nlp("nothing", jobDescription))))

\* what fetch and response.json() may give for a request of the page: a
\* rejection (status 0), the 500 of the handler's catch block, or the
\* analysis of the uploaded resume against a job description the page sends
AnalyzeResponses ==
  {[sent |-> TRUE, status |-> 0, body |-> [success |-> FALSE, error |-> "Failed to fetch"]],
   ErrorResponse(500, "error.message")}
  \cup {AnalysisOf(Text(ResumeParts[1], 298), jobDescription) :
          jobDescription \in {Text(JobParts[2], 0), SampleDescription}}

InitPage ==
  /\ NoPage
  /\ pc = "page"
  /\ reqResumeText = <<>> /\ reqJobDescription = <<>> /\ nlpReading = "nothing"
  /\ reqResumeKeywords = <<>> /\ reqJobKeywords = <<>> /\ subScores = <<>>
  /\ reqScoreResults = <<>> /\ recommendations = <<>> /\ gradeArg = 0
  /\ ckResumeKeywords = <<>> /\ ckJobKeywords = <<>>
  /\ comparison = NoComparison /\ ckPc = "idle"
  /\ NoRequest
  /\ dictionaries = Dictionaries

\* handleFileSelect and handleFileDrop, lines 101-168: validateAndSetFile on
\* the file chosen in or dropped on the upload area, which is displayed while
\* no file is selected (lines 161, 176)
HandleFileSelect ==
  /\ selectedFile = <<>>
  /\ \E file \in PageFiles :
       IF file.extension \notin {".pdf", ".docx", ".doc", ".txt"}
          \/ file.size > 5 * 1024 * 1024
       THEN /\ errorShown' = TRUE
            /\ UNCHANGED <<selectedFile, analyzeBtnDisabled>>
       ELSE /\ selectedFile' = file
            /\ errorShown' = FALSE
            /\ analyzeBtnDisabled' = validateInputs(file, jobDescriptionValue)
  /\ UNCHANGED <<jobDescriptionValue, resultsShown, currentAnalysis, displayedSteps,
                 pendingRequests>>
  /\ UNCHANGED <<vars, ckVars, hVars, dictionaries>>

\* lines 173-179, on a click of the button shown with the file (line 162)
RemoveFile ==
  /\ selectedFile # <<>>
  /\ selectedFile' = <<>>
  /\ analyzeBtnDisabled' = validateInputs(<<>>, jobDescriptionValue)
  /\ UNCHANGED <<jobDescriptionValue, errorShown, resultsShown, currentAnalysis,
                 displayedSteps, pendingRequests>>
  /\ UNCHANGED <<vars, ckVars, hVars, dictionaries>>

\* line 45: the input event of the job description runs validateInputs
JobDescriptionInput ==
  /\ \E value \in JobDescriptionValues \ {jobDescriptionValue} :
       /\ jobDescriptionValue' = value
       /\ analyzeBtnDisabled' = validateInputs(selectedFile, value)
  /\ UNCHANGED <<selectedFile, errorShown, resultsShown, currentAnalysis,
                 displayedSteps, pendingRequests>>
  /\ UNCHANGED <<vars, ckVars, hVars, dictionaries>>

\* lines 80-94, with the samples loaded
LoadSampleJob ==
  /\ jobDescriptionValue' = SampleDescription
  /\ analyzeBtnDisabled' = validateInputs(selectedFile, SampleDescription)
  /\ UNCHANGED <<selectedFile, errorShown, resultsShown, currentAnalysis,
                 displayedSteps, pendingRequests>>
  /\ UNCHANGED <<vars, ckVars, hVars, dictionaries>>

\* lines 196-219 of analyzeResume, on a click of the Analyze button, which a
\* disabled button does not receive: the test of the inputs, then the
\* button is disabled and the request sent
AnalyzeResume ==
  /\ ~analyzeBtnDisabled
  /\ IF selectedFile = <<>> \/ IsBlank(jobDescriptionValue)
     THEN /\ errorShown' = TRUE
          /\ UNCHANGED <<analyzeBtnDisabled, pendingRequests>>
     ELSE /\ pendingRequests < MaxPending
          /\ analyzeBtnDisabled' = TRUE
          /\ errorShown' = FALSE
          /\ pendingRequests' = pendingRequests + 1
  /\ UNCHANGED <<selectedFile, jobDescriptionValue, resultsShown, currentAnalysis,
                 displayedSteps>>
  /\ UNCHANGED <<vars, ckVars, hVars, dictionaries>>

\* lines 221-251: the response of a request in flight arrives
AnalyzeCompleted ==
  /\ \E resp \in AnalyzeResponses : AnalyzeSettled(resp)
  /\ UNCHANGED <<vars, ckVars, hVars, dictionaries>>

\* lines 647-673, on a click of "analyze another" in the results section
ResetForm ==
  /\ resultsShown
  /\ selectedFile' = <<>>
  /\ jobDescriptionValue' = Text(<<>>, 0)
  /\ resultsShown' = FALSE
  /\ currentAnalysis' = <<>>
  /\ analyzeBtnDisabled' = validateInputs(<<>>, Text(<<>>, 0))
  /\ UNCHANGED <<errorShown, displayedSteps, pendingRequests>>
  /\ UNCHANGED <<vars, ckVars, hVars, dictionaries>>

NextPage ==
  \/ HandleFileSelect
  \/ RemoveFile
  \/ JobDescriptionInput
  \/ LoadSampleJob
  \/ AnalyzeResume
  \/ AnalyzeCompleted
  \/ ResetForm

SpecPage == InitPage /\ [][NextPage]_allVars

--------------------------------------------------------------------------
(* Properties of compareKeywords (checked under SpecCompare) *)

LowerSet(keywords) == {ToLowerCase(k) : k \in Range(keywords)}

\* C5: compareKeywords places every job keyword in exactly one of matched and
\* missing: compared case-insensitively the two lists hold exactly the job
\* keywords and share none, and matchedCount + missingCount = totalJobKeywords,
\* the length of the job list.
C5_MatchedMissingPartition ==
  ckPc = "done" =>
    /\ LowerSet(comparison.matched) \cup LowerSet(comparison.missing)
         = LowerSet(ckJobKeywords)
    /\ LowerSet(comparison.matched) \cap LowerSet(comparison.missing) = {}
    /\ comparison.matchedCount + comparison.missingCount
         = comparison.totalJobKeywords
    /\ comparison.totalJobKeywords = Len(ckJobKeywords)
    /\ comparison.matchedCount = Len(comparison.matched)
    /\ comparison.missingCount = Len(comparison.missing)

\* a call whose job list has a keyword matched only because it contains two
\* of the resume keywords, and a keyword that is missing
C5_Witness ==
  /\ ckPc = "done"
  /\ comparison.matchedCount >= 1
  /\ comparison.missingCount >= 1
  /\ \E k \in Range(comparison.matched) :
       /\ ToLowerCase(k) \notin LowerSet(ckResumeKeywords)
       /\ Cardinality({r \in LowerSet(ckResumeKeywords) :
                         Includes(ToLowerCase(k), r)}) >= 2

\* the reference of C6 for one job keyword
RefIsMatched(resumeKeywords, k) ==
  \E r \in Range(resumeKeywords) :
    \/ ToLowerCase(r) = ToLowerCase(k)
    \/ Includes(ToLowerCase(k), ToLowerCase(r))
    \/ Includes(ToLowerCase(r), ToLowerCase(k))

\* C6: compareKeywords equals the reference: a job keyword is matched iff its
\* lowercase form equals, contains or is contained in a lowercased resume
\* keyword, otherwise missing; both lists keep the job-keyword order;
\* matchRate = matched / total x 100, and 0 for an empty job list; an empty
\* resume list gives matched = [], missing = jobKeywords, matchRate = 0.
C6_CompareEqualsReference ==
  ckPc = "done" =>
    LET IsM(k) == RefIsMatched(ckResumeKeywords, k)
        NotM(k) == ~RefIsMatched(ckResumeKeywords, k)
        total == Len(ckJobKeywords)
    IN /\ comparison.matched = SelectSeq(ckJobKeywords, IsM)
       /\ comparison.missing = SelectSeq(ckJobKeywords, NotM)
       /\ total > 0 =>
            comparison.matchRate.num * total
              = 100 * Len(SelectSeq(ckJobKeywords, IsM)) * comparison.matchRate.den
       /\ total = 0 => comparison.matchRate.num = 0
       /\ comparison.matchRate.den > 0
       /\ ckResumeKeywords = <<>> =>
            /\ comparison.matched = <<>>
            /\ comparison.missing = ckJobKeywords
            /\ comparison.matchRate.num = 0

\* a call where a job keyword is matched only because it contains a resume
\* keyword, next to a missing one
C6_Witness ==
  /\ ckPc = "done"
  /\ Len(ckJobKeywords) = 2
  /\ comparison.matched = <<ckJobKeywords[2]>>
  /\ comparison.missing = <<ckJobKeywords[1]>>
  /\ \A r \in LowerSet(ckResumeKeywords) :
       /\ r # ToLowerCase(ckJobKeywords[2])
       /\ ~Includes(r, ToLowerCase(ckJobKeywords[2]))


--------------------------------------------------------------------------
(* POST /api/generate-report, src/server.js:187-196 *)

\* !analysisData || !analysisData.overallScore, for a body that is an object
\* with a number as its overallScore: the request is answered with 400
InvalidAnalysisData(analysisData) == analysisData.overallScore = 0

--------------------------------------------------------------------------
(* Properties of one analysis (checked under Spec) *)

\* the states in which reqScoreResults is a result of calculateScore
Scored == pc \in {"recommend", "done"}

\* C1: for every pair of texts, two empty strings included, and the keyword
\* sets extractKeywords makes of them, the overallScore calculateScore
\* returns is an integer from 0 to 100.
C1_OverallScoreInRange ==
  Scored => reqScoreResults.overallScore \in 0..100

\* calculateScore has scored two empty strings
C1_Witness ==
  /\ Scored
  /\ reqResumeText = Text(<<>>, 0)
  /\ reqJobDescription = Text(<<>>, 0)
  /\ reqScoreResults.overallScore \in 0..100

\* round(0.40 k + 0.20 s + 0.15 x + 0.10 e + 0.15 f) of five integer scores
RoundedWeighting(k, s, x, e, f) ==
  (2 * (40 * k + 20 * s + 15 * x + 10 * e + 15 * f) + 100) \div 200

ReturnedWeighting ==
  RoundedWeighting(reqScoreResults.breakdown.keywordMatch.score,
                   reqScoreResults.breakdown.skillsAlignment.score,
                   reqScoreResults.breakdown.experienceRelevance.score,
                   reqScoreResults.breakdown.educationMatch.score,
                   reqScoreResults.breakdown.formatReadability.score)

\* C2 as stated: overallScore equals round(0.40 k + 0.20 s + 0.15 x + 0.10 e
\* + 0.15 f) of the five scores returned in breakdown.
C2_OverallEqualsReturnedWeighting ==
  Scored => reqScoreResults.overallScore = ReturnedWeighting

\* C2: overallScore is round(0.40 k + 0.20 s + 0.15 x + 0.10 e + 0.15 f) of
\* the five scores the calculators computed, of which the keyword and the
\* skills score can be fractions; breakdown returns each score rounded, and
\* the same formula over the returned scores is within 1 of overallScore.
C2_OverallIsWeightingOfComputedScores ==
  Scored =>
    LET k == subScores.keywordScore.score
        s == subScores.skillsScore.score
        n == 40 * k.num * s.den + 20 * s.num * k.den
             + (15 * subScores.experienceScore.score
                + 10 * subScores.educationScore.score
                + 15 * subScores.formatScore.score) * k.den * s.den
        d == 100 * k.den * s.den
    IN /\ reqScoreResults.overallScore = (2 * n + d) \div (2 * d)
       /\ reqScoreResults.overallScore - ReturnedWeighting \in {-1, 0, 1}

\* a result whose overallScore is not the weighting of the returned scores
C2_Witness ==
  /\ Scored
  /\ reqScoreResults.breakdown.keywordMatch.score * subScores.keywordScore.score.den
       # subScores.keywordScore.score.num
  /\ reqScoreResults.overallScore # ReturnedWeighting

\* C3: scoreGrade is a step function of overallScore: 90 and more gives A,
\* 80..89 B, 70..79 C, 60..69 D, less than 60 F; in every result of
\* calculateScore and for every score from 0 to 100 given to getScoreGrade.
C3_GradeIsStepFunction ==
  (Scored \/ pc = "graded") =>
    LET score == reqScoreResults.overallScore
        grade == reqScoreResults.scoreGrade
    IN /\ score >= 90 => grade = "A"
       /\ score \in 80..89 => grade = "B"
       /\ score \in 70..79 => grade = "C"
       /\ score \in 60..69 => grade = "D"
       /\ score < 60 => grade = "F"
       /\ score = 59 => grade = "F"

\* getScoreGrade has graded the boundary value 90
C3_Witness ==
  /\ pc = "graded"
  /\ reqScoreResults.overallScore = 90
  /\ reqScoreResults.scoreGrade = "A"

InPercentRange(f) == 0 <= f.num /\ f.num <= 100 * f.den /\ f.den > 0

\* C4: each of the five sub-score calculators returns a score from 0 to 100,
\* and the weights reported in breakdown are 40, 20, 15, 10, 15, which sum
\* to 100.
C4_SubScoresInRangeWeightsFixed ==
  Scored =>
    /\ InPercentRange(subScores.keywordScore.score)
    /\ InPercentRange(subScores.skillsScore.score)
    /\ subScores.experienceScore.score \in 0..100
    /\ subScores.educationScore.score \in 0..100
    /\ subScores.formatScore.score \in 0..100
    /\ reqScoreResults.breakdown.keywordMatch.weight = 40
    /\ reqScoreResults.breakdown.skillsAlignment.weight = 20
    /\ reqScoreResults.breakdown.experienceRelevance.weight = 15
    /\ reqScoreResults.breakdown.educationMatch.weight = 10
    /\ reqScoreResults.breakdown.formatReadability.weight = 15
    /\ reqScoreResults.breakdown.keywordMatch.weight
         + reqScoreResults.breakdown.skillsAlignment.weight
         + reqScoreResults.breakdown.experienceRelevance.weight
         + reqScoreResults.breakdown.educationMatch.weight
         + reqScoreResults.breakdown.formatReadability.weight = 100

\* every job keyword matched and more than 70% of the job's skills: the
\* keyword score is the match rate of 100 plus the bonus, capped at 100
C4_Witness ==
  /\ Scored
  /\ reqScoreResults.metrics.keywordsMatched > 0
  /\ reqScoreResults.metrics.keywordsMissing = 0
  /\ reqScoreResults.metrics.criticalSkillsMatched > 0
  /\ FracEq(subScores.keywordScore.score, Frac(100, 1))

\* the place of a recommendation's rule in the order in which
\* generateRecommendations evaluates its rules
RuleOrder(category) ==
  CASE category = "Keywords" -> 1
    [] category = "Skills" -> 2
    [] category = "Experience" -> 3
    [] category = "Impact" -> 4
    [] category = "Format" -> 5
    [] category = "Length" -> 6
    [] category = "Contact" -> 7
    [] category = "Education" -> 8

PriorityRank(priority) ==
  CASE priority = "high" -> 0
    [] priority = "medium" -> 1
    [] priority = "low" -> 2
    [] OTHER -> 3

\* C7: the list generateRecommendations returns is sorted ascending by
\* priority rank (high 0, medium 1, low 2), every priority is high, medium or
\* low, and entries of equal priority keep the order in which their rules
\* were evaluated.
C7_SortedByPriorityStable ==
  pc = "done" =>
    /\ \A i \in 1..Len(recommendations) :
         recommendations[i].priority \in {"high", "medium", "low"}
    /\ \A i, j \in 1..Len(recommendations) :
         i < j =>
           /\ PriorityRank(recommendations[i].priority)
                <= PriorityRank(recommendations[j].priority)
           /\ recommendations[i].priority = recommendations[j].priority =>
                RuleOrder(recommendations[i].category)
                  < RuleOrder(recommendations[j].category)

\* a list with all three priorities in which a high entry of a later rule
\* stands before a medium entry of an earlier rule, and two high entries
\* stand in rule order
C7_Witness ==
  /\ pc = "done"
  /\ {recommendations[i].priority : i \in 1..Len(recommendations)}
       = {"high", "medium", "low"}
  /\ \E i, j \in 1..Len(recommendations) :
       /\ i < j
       /\ recommendations[i].priority = "high"
       /\ recommendations[j].priority = "medium"
       /\ RuleOrder(recommendations[i].category) > RuleOrder(recommendations[j].category)
  /\ \E i, j \in 1..Len(recommendations) :
       /\ i < j
       /\ recommendations[i].priority = "high"
       /\ recommendations[j].priority = "high"

\* the analysis has a Skills Alignment score below 70 and lists a missing skill
SkillsRuleCase ==
  /\ pc = "done"
  /\ reqScoreResults.breakdown.skillsAlignment.score < 70
  /\ Len(reqScoreResults.skillsAnalysis.missing) > 0

\* C8: for every result of calculateScore whose Skills Alignment score is
\* below 70 and whose skills analysis lists at least one missing skill,
\* generateRecommendations emits a high-priority skills recommendation that
\* names up to 5 of the missing skills.
C8_SkillsRecommendationEmitted ==
  SkillsRuleCase =>
    \E i \in 1..Len(recommendations) :
      /\ recommendations[i].priority = "high"
      /\ recommendations[i].category = "Skills"
      /\ recommendations[i].description.skills
           = SkillNames(Slice(reqScoreResults.skillsAnalysis.missing, 5))

\* the case of C8 with no skills recommendation in the returned list
C8_Witness ==
  /\ SkillsRuleCase
  /\ \A i \in 1..Len(recommendations) : recommendations[i].category # "Skills"

\* the analysis has a Format & Readability score below 70 and lists an issue
FormatRuleCase ==
  /\ pc = "done"
  /\ reqScoreResults.breakdown.formatReadability.score < 70
  /\ Len(reqScoreResults.formatAnalysis.issues) > 0

\* C9: for every result of calculateScore whose Format & Readability score is
\* below 70 and whose format analysis has at least one issue,
\* generateRecommendations emits a medium-priority format recommendation
\* listing those issues.
C9_FormatRecommendationEmitted ==
  FormatRuleCase =>
    \E i \in 1..Len(recommendations) :
      /\ recommendations[i].priority = "medium"
      /\ recommendations[i].category = "Format"
      /\ recommendations[i].description.issues = reqScoreResults.formatAnalysis.issues

\* the case of C9 with no format recommendation in the returned list
C9_Witness ==
  /\ FormatRuleCase
  /\ \A i \in 1..Len(recommendations) : recommendations[i].category # "Format"

CurrencySymbols == {"$", "(euro)", "(pound)", "(yen)"}

\* the resume text holds no digit and no currency symbol (the filler words
\* hold neither)
NoDigitNoCurrency ==
  \A i \in 1..Len(reqResumeText.body) :
    /\ ~IsDigit(reqResumeText.body[i])
    /\ reqResumeText.body[i] \notin CurrencySymbols

\* C10: for every resume text with no digit and no currency symbol the
\* quantifiable-achievement count of calculateScore is exactly 0, and
\* generateRecommendations emits the high-priority "Add Quantifiable Results"
\* recommendation.
C10_NoDigitsCountZero ==
  (pc = "done" /\ NoDigitNoCurrency) =>
    /\ reqScoreResults.metrics.quantifiableAchievements = 0
    /\ \E i \in 1..Len(recommendations) :
         /\ recommendations[i].priority = "high"
         /\ recommendations[i].title = "Add Quantifiable Results"

\* a resume with no digit and no currency symbol that is counted three
\* achievements and gets no "Add Quantifiable Results" recommendation
C10_Witness ==
  /\ pc = "done"
  /\ NoDigitNoCurrency
  /\ reqScoreResults.metrics.quantifiableAchievements = 3
  /\ \A i \in 1..Len(recommendations) :
       recommendations[i].title # "Add Quantifiable Results"

\* the skills calculateSkillsScore detects in the two texts (lines 160-161)
ReqResumeSkills == extractSkills(TextToLowerCase(reqResumeText))
ReqJobSkills == extractSkills(TextToLowerCase(reqJobDescription))

\* C11: whenever the job description yields no detected skill,
\* calculateSkillsScore returns the score 75, exactly, with empty matched and
\* missing lists, whatever skills the resume has; it returns a result.
C11_NoJobSkillsScore75 ==
  (Scored /\ ReqJobSkills = <<>>) =>
    /\ subScores.skillsScore.score = Frac(75, 1)
    /\ subScores.skillsScore.analysis.matched = <<>>
    /\ subScores.skillsScore.analysis.missing = <<>>
    /\ reqScoreResults.breakdown.skillsAlignment.score = 75

\* a job description without skills scored against a resume that has skills
C11_Witness ==
  /\ Scored
  /\ ReqJobSkills = <<>>
  /\ Len(ReqResumeSkills) >= 2
  /\ reqJobDescription.body # <<>>
  /\ subScores.skillsScore.score = Frac(75, 1)


\* the places in the returned list of the recommendations with a title
Titled(title) == {i \in 1..Len(recommendations) : recommendations[i].title = title}

MissingContact ==
  {name \in {"email", "phone", "LinkedIn"} :
     \/ name = "email" /\ ~reqScoreResults.metrics.contactInfo.hasEmail
     \/ name = "phone" /\ ~reqScoreResults.metrics.contactInfo.hasPhone
     \/ name = "LinkedIn" /\ ~reqScoreResults.metrics.contactInfo.hasLinkedIn}

\* the returned list has exactly one recommendation with the title, of the
\* priority, when fires holds, and none with the title otherwise
EmittedIff(title, priority, fires) ==
  /\ Cardinality(Titled(title)) = (IF fires THEN 1 ELSE 0)
  /\ \A i \in Titled(title) : recommendations[i].priority = priority

\* C13: the rules of generateRecommendations are independent of each other:
\* "Improve Keyword Match" (high) is in the list iff the keyword score is
\* below 70, "Use More Action Verbs" (medium) iff the action-verb count is
\* below 5, "Add Quantifiable Results" (high) iff the achievement count is
\* below 3, "Highlight Education" (medium) iff the education score is below 70,
\* "Complete Contact Information" (high) iff one of email, phone, LinkedIn is
\* missing, and it names exactly the missing ones.
C13_RulesIndependent ==
  pc = "done" =>
    /\ EmittedIff("Improve Keyword Match", "high",
                  reqScoreResults.breakdown.keywordMatch.score < 70)
    /\ EmittedIff("Use More Action Verbs", "medium",
                  reqScoreResults.metrics.actionVerbsCount < 5)
    /\ EmittedIff("Add Quantifiable Results", "high",
                  reqScoreResults.metrics.quantifiableAchievements < 3)
    /\ EmittedIff("Highlight Education", "medium",
                  reqScoreResults.breakdown.educationMatch.score < 70)
    /\ EmittedIff("Complete Contact Information", "high", MissingContact # {})
    /\ \A i \in Titled("Complete Contact Information") :
         /\ Range(recommendations[i].description.missing) = MissingContact
         /\ Len(recommendations[i].description.missing) = Cardinality(MissingContact)

\* a list in which the five rules have fired together, the contact rule for
\* a resume that has an email address and lacks a phone number
C13_Witness ==
  /\ pc = "done"
  /\ Titled("Improve Keyword Match") # {}
  /\ Titled("Use More Action Verbs") # {}
  /\ Titled("Add Quantifiable Results") # {}
  /\ Titled("Highlight Education") # {}
  /\ Titled("Complete Contact Information") # {}
  /\ Len(recommendations) >= 6
  /\ ~reqScoreResults.metrics.contactInfo.hasPhone
  /\ reqScoreResults.metrics.contactInfo.hasEmail


\* C16: no operation changes data it did not create: calculateScore leaves the
\* two keyword sets it receives as they are, generateRecommendations leaves
\* the result it receives as it is, and no step changes the dictionaries
\* TECHNICAL_SKILLS, ACTION_VERBS and STOP_WORDS.
C16_ArgumentsAndDictionariesUnchanged ==
  [][/\ pc = "score" => UNCHANGED <<reqResumeKeywords, reqJobKeywords>>
     /\ pc = "recommend" => UNCHANGED reqScoreResults
     /\ dictionaries' = dictionaries
     /\ dictionaries' = Dictionaries]_allVars

\* an analysis has run to its end on a resume with several keywords, skills
\* and recommendations, and the keyword sets hold what extractKeywords returned
C16_Witness ==
  /\ pc = "done"
  /\ Len(reqResumeKeywords.keywords) >= 2
  /\ reqResumeKeywords = extractKeywords(reqResumeText, Nlp(nlpReading, reqResumeText))
  /\ Len(reqJobKeywords.skills) >= 1
  /\ Len(recommendations) >= 2
  /\ dictionaries = Dictionaries

\* the sections the format score reports as present
PresentSections ==
  {sec \in {"contact", "experience", "education", "skills"} :
     subScores.formatScore.sections[sec]}

LengthPoints(words) ==
  IF words \in 300..1000 THEN 20 ELSE IF words < 300 THEN 10 ELSE 15

HasSpecialCharacter ==
  \E i \in 1..Len(reqResumeText.body) : reqResumeText.body[i] \in SpecialChars

\* the sum of the five parts of the format score
FormatSum ==
  (40 * Cardinality(PresentSections)) \div 4
  + LengthPoints(WordCount(reqResumeText))
  + (IF BulletPointCount(reqResumeText.body) >= 5 THEN 15 ELSE 5)
  + (IF NumberCount(reqResumeText.body) >= 5 THEN 15 ELSE 5)
  + (IF HasSpecialCharacter THEN -10 ELSE 10)

KeywordRate ==
  LET total == subScores.keywordScore.matched + subScores.keywordScore.missing
  IN IF total > 0 THEN Frac(100 * subScores.keywordScore.matched, total) ELSE Frac(0, 1)

\* the match rate of the job's skill names against the resume's exceeds 70
SkillNamesRateAbove70 ==
  LET jobNames == SkillNames(reqJobKeywords.skills)
      matched == {k \in 1..Len(jobNames) :
                    RefIsMatched(SkillNames(reqResumeKeywords.skills), jobNames[k])}
  IN Len(jobNames) > 0 /\ 100 * Cardinality(matched) > 70 * Len(jobNames)

\* C24: the keyword score equals the comparator's match rate on the full
\* keyword sets, plus 10 capped at 100 exactly when the match rate of the
\* job's skill names against the resume's skill names exceeds 70; a job
\* without skills never gets the bonus.
C24_KeywordScoreIsRatePlusBonus ==
  pc = "recommend" =>
    LET score == subScores.keywordScore.score
        rate == KeywordRate
    IN /\ subScores.keywordScore.matched + subScores.keywordScore.missing
            = Len(reqJobKeywords.keywords)
       /\ SkillNamesRateAbove70 =>
            /\ rate.num + 10 * rate.den < 100 * rate.den =>
                 score.num * rate.den = (rate.num + 10 * rate.den) * score.den
            /\ rate.num + 10 * rate.den >= 100 * rate.den => score.num = 100 * score.den
       /\ ~SkillNamesRateAbove70 => score.num * rate.den = rate.num * score.den
       /\ reqJobKeywords.skills = <<>> => score.num * rate.den = rate.num * score.den

\* a job whose one skill the resume has, and one of whose other keywords it
\* lacks: the bonus is added to a rate below 90
C24_Witness ==
  /\ Scored
  /\ SkillNamesRateAbove70
  /\ KeywordRate.num < 90 * KeywordRate.den
  /\ subScores.keywordScore.score.num * KeywordRate.den
       = (KeywordRate.num + 10 * KeywordRate.den) * subScores.keywordScore.score.den

\* C27: for every input the experience score is 50 or more, the education
\* score 40 or more and the format score 10 or more, the sum of the format
\* points being 10 or more before the clamp; so overallScore is 13 or more,
\* never 0, and the test of POST /api/generate-report for a falsy
\* overallScore rejects no result of calculateScore.
C27_ScoreFloors ==
  pc = "recommend" =>
    /\ subScores.experienceScore.score >= 50
    /\ subScores.educationScore.score >= 40
    /\ subScores.formatScore.score >= 10
    /\ FormatSum >= 10
    /\ reqScoreResults.overallScore >= 13
    /\ ~InvalidAnalysisData(reqScoreResults)

\* the experience and the format score are both at their floor: a resume of
\* one special character without years, against a job that states years
C27_Witness ==
  /\ Scored
  /\ subScores.experienceScore.score = 50
  /\ subScores.formatScore.score = 10
  /\ ~InvalidAnalysisData(reqScoreResults)

--------------------------------------------------------------------------
(* Properties of single calls (checked under SpecCalls) *)

\* C14: extractKeywords called with an empty text, or one of white space
\* only, returns a result whose keywords, skills, actionVerbs, phrases and
\* entities are all empty.
C14_BlankTextEmptyKeywords ==
  (pc = "extracted" /\ \A i \in 1..Len(reqResumeText.body) : IsSpace(reqResumeText.body[i])) =>
    /\ reqResumeKeywords.keywords = <<>>
    /\ reqResumeKeywords.skills = <<>>
    /\ reqResumeKeywords.actionVerbs = <<>>
    /\ reqResumeKeywords.phrases = <<>>
    /\ reqResumeKeywords.entities = <<>>

\* extractKeywords has returned for a text of a line break and a tab
C14_Witness ==
  /\ pc = "extracted"
  /\ reqResumeText.body = <<"\n", "\t">>
  /\ reqResumeKeywords.keywords = <<>>
  /\ reqResumeKeywords.entities = <<>>

\* the job skills whose lower-case name is the lower-case name of a resume skill
MatchedJobSkills ==
  {k \in 1..Len(ReqJobSkills) :
     \E r \in 1..Len(ReqResumeSkills) :
       ToLowerCase(ReqResumeSkills[r].skill) = ToLowerCase(ReqJobSkills[k].skill)}

\* the resume's detected skills beyond the matched ones
ExtraSkills == Len(ReqResumeSkills) - Cardinality(MatchedJobSkills)

\* matched job skills / total job skills x 100
Coverage == Percent(Cardinality(MatchedJobSkills), Len(ReqJobSkills))

\* C19: when the job has skills, the score of calculateSkillsScore is the
\* coverage (matched job skills / total job skills x 100, matching by equal
\* lower-case names), plus 10 capped at 100 exactly when the resume has 5 or
\* more skills beyond the matched ones and the coverage is above 50.
C19_CoveragePlusBonusFromFiveExtra ==
  (pc = "skills" /\ ReqJobSkills # <<>>) =>
    FracEq(subScores.skillsScore.score,
           IF ExtraSkills >= 5 /\ FracGreater(Coverage, 50)
           THEN AddCapped(Coverage, 10)
           ELSE Coverage)

\* a resume with exactly five skills beyond the two it shares with a job of
\* three skills
C19_Witness ==
  /\ pc = "skills"
  /\ Len(ReqJobSkills) = 3
  /\ Cardinality(MatchedJobSkills) = 2
  /\ ExtraSkills = 5
  /\ FracEq(subScores.skillsScore.score, Coverage)

\* the field-of-study bonus of lines 326-333
FieldBonus ==
  IF \E f \in Range(subScores.educationScore.analysis.required.fieldOfStudy) :
       f \in Range(subScores.educationScore.analysis.resume.fieldOfStudy)
  THEN 10 ELSE 0

\* C20: whenever the job description states a degree requirement, of any
\* rank, and the resume has no detected degree, the education score before
\* the field-of-study bonus is 40.
C20_NoDegreeScores40 ==
  (/\ pc = "education"
   /\ detectEducation(reqJobDescription).highestDegree # "none"
   /\ detectEducation(reqResumeText).highestDegree = "none") =>
    subScores.educationScore.score - FieldBonus = 40

\* a resume without a degree scored against a job that asks for an
\* associate's degree
C20_Witness ==
  /\ pc = "education"
  /\ detectEducation(reqJobDescription).highestDegree = "associates"
  /\ detectEducation(reqResumeText).highestDegree = "none"
  /\ detectEducation(reqResumeText).fieldOfStudy = <<>>
  /\ subScores.educationScore.score = 75


\* the rank of the highest degree detected in a text: phd 4, masters 3,
\* bachelors 2, associates 1, none 0
RankIn(text) ==
  LET degree == detectEducation(text).highestDegree
  IN IF degree = "phd" THEN 4
     ELSE IF degree = "masters" THEN 3
     ELSE IF degree = "bachelors" THEN 2
     ELSE IF degree = "associates" THEN 1
     ELSE 0

CommonField ==
  \E f \in Range(detectEducation(reqResumeText).fieldOfStudy) :
    f \in Range(detectEducation(reqJobDescription).fieldOfStudy)

\* the score of a resume of rank r against a requirement of rank j before
\* the field-of-study bonus, for j = 0 or r > 0
RankScore(r, j) ==
  IF j = 0 THEN (IF r > 0 THEN 90 ELSE 70)
  ELSE IF r >= j THEN 100
  ELSE IF r = j - 1 THEN 75
  ELSE 60

\* C21: with the ranks phd 4 > masters 3 > bachelors 2 > associates 1, the
\* education score is 90 or 70 when the job states no degree (90 iff the
\* resume has a degree); for a resume with a degree against a requirement it
\* is 100 at or above the required rank, 75 one rank below, 60 further below;
\* then 10 is added, capped at 100, iff a detected field of study is common
\* to resume and job.
C21_EducationScoreByRank ==
  (pc = "education" /\ (RankIn(reqJobDescription) = 0 \/ RankIn(reqResumeText) > 0)) =>
    subScores.educationScore.score
      = IF CommonField
        THEN Min(100, RankScore(RankIn(reqResumeText), RankIn(reqJobDescription)) + 10)
        ELSE RankScore(RankIn(reqResumeText), RankIn(reqJobDescription))

\* a bachelor's with computer science scored against a doctorate in computer
\* science: two ranks below, with the field bonus
C21_Witness ==
  /\ pc = "education"
  /\ RankIn(reqResumeText) = 2
  /\ RankIn(reqJobDescription) = 4
  /\ CommonField
  /\ subScores.educationScore.score = 70

\* the maximum N that the three patterns of extractYearsOfExperience match
\* in a text, -1 when no pattern matches
MatchedYears(text) ==
  LET s == text.body
      found == {YearsPattern1(s, i) : i \in 1..Len(s)}
               \cup {YearsPattern2(s, i) : i \in 1..Len(s)}
               \cup {YearsPattern3(s, i) : i \in 1..Len(s)}
  IN IF found \subseteq {-1} THEN -1 ELSE CHOOSE m \in found : \A x \in found : x <= m

\* the score before the two bonuses, from the years r of the resume and j of
\* the job
YearsScore(r, j) ==
  IF j # -1
  THEN IF r = -1 THEN 50
       ELSE IF r >= j THEN 100
       ELSE IF 4 * r >= 3 * j THEN 80
       ELSE 60
  ELSE IF r > 0 THEN 85 ELSE 70

VerbsBonus(score) ==
  IF Len(extractActionVerbs(TextToLowerCase(reqResumeText))) >= 5
  THEN Min(100, score + 10) ELSE score

LeadershipBonus(score) ==
  IF \E term \in {<<"l","e","d">>, <<"m","a","n","a","g","e","d">>, <<"d","i","r","e","c","t","e","d">>, <<"s","u","p","e","r","v","i","s","e","d">>, <<"m","e","n","t","o","r","e","d">>} :
       Includes(ToLowerCase(reqResumeText.body), term)
  THEN Min(100, score + 5) ELSE score

\* C22: the years of a text are the maximum N its patterns match, none when
\* no pattern matches.  If the job states years the experience score is 100
\* when the resume's years reach them, 80 when they reach 75% of them, 60
\* below, 50 when the resume states none; if the job states none it is 85 for
\* resume years above 0 and 70 otherwise; then 10 is added, capped at 100,
\* for 5 or more distinct action verbs, then 5, capped at 100, when one of
\* led, managed, directed, supervised, mentored is a substring of the resume.
C22_ExperienceScoreRule ==
  pc = "experience" =>
    subScores.experienceScore.score
      = LeadershipBonus(VerbsBonus(YearsScore(MatchedYears(reqResumeText),
                                              MatchedYears(reqJobDescription))))

\* a resume with 5 years scored against a job that asks for 0+ years: the
\* score is that of a job without a requirement
C22_Witness ==
  /\ pc = "experience"
  /\ MatchedYears(reqResumeText) = 5
  /\ MatchedYears(reqJobDescription) = 0
  /\ reqResumeText.body = <<"5"," ","y","e","a","r","s"," ","w","i","t","h"," ","c","i","/","c","d">>
  /\ subScores.experienceScore.score = 85

\* the record is that of an entry of the static dictionary, with the
\* category under which the entry is listed
DictionaryRecord(rec) ==
  \E c \in 1..Len(TECHNICAL_SKILLS) :
    /\ rec.category = TECHNICAL_SKILLS[c].category
    /\ rec.skill \in Range(TECHNICAL_SKILLS[c].skills)

\* C25: every record of KeywordSet.skills has a skill that is an entry of the
\* static dictionary, the category under which the entry is listed and a
\* count of 1 or more; the records are in order of non-increasing count;
\* every skill name is among KeywordSet.keywords, which has no duplicates.
C25_SkillRecordsFromDictionary ==
  pc = "extracted" =>
    LET skills == reqResumeKeywords.skills
        keywords == reqResumeKeywords.keywords
    IN /\ \A k \in 1..Len(skills) :
            /\ DictionaryRecord(skills[k])
            /\ skills[k].count >= 1
            /\ skills[k].skill \in Range(keywords)
       /\ \A k \in 1..(Len(skills) - 1) : skills[k].count >= skills[k + 1].count
       /\ \A i, j \in 1..Len(keywords) : keywords[i] = keywords[j] => i = j

\* skills found twice stand before one found once that the dictionary lists
\* before them
C25_Witness ==
  /\ pc = "extracted"
  /\ \E i, j \in 1..Len(reqResumeKeywords.skills) :
       /\ i < j
       /\ reqResumeKeywords.skills[i].skill = <<"r","e","a","c","t">>
       /\ reqResumeKeywords.skills[i].count = 2
       /\ reqResumeKeywords.skills[j].skill = <<"r","u","s","t">>
       /\ reqResumeKeywords.skills[j].count = 1

\* a character that delimits a word: white space or punctuation
IsDelimiter(c) == ~(IsLetter(c) \/ IsDigit(c))

\* the number of places where the entry stands in the lowercased text as a
\* whole word: between delimiters or the ends of the text
WholeWordOccurrences(s, entry) ==
  Cardinality({i \in 1..Len(s) :
                 /\ LowerChar(s[i]) = entry[1]
                 /\ LitAtCI(s, i, entry)
                 /\ (i = 1 \/ IsDelimiter(s[i - 1]))
                 /\ (i + Len(entry) > Len(s) \/ IsDelimiter(s[i + Len(entry)]))})

RecordedWithCount(skills, cat, entry, n) ==
  n > 0 => \E k \in 1..Len(skills) :
             /\ skills[k].skill = entry
             /\ skills[k].category = cat
             /\ skills[k].count = n

\* C26: for every entry of every dictionary category (c++, c#, .net and
\* ci/cd included) that occurs in the lowercased text as a whole word,
\* delimited on each side by white space, punctuation or the end of the
\* text, extractSkills returns a record whose count is the number of such
\* occurrences.
C26_EveryWholeWordEntryRecorded ==
  pc = "extracted" =>
    \A c \in 1..Len(TECHNICAL_SKILLS) :
      \A k \in 1..Len(TECHNICAL_SKILLS[c].skills) :
        RecordedWithCount(reqResumeKeywords.skills, TECHNICAL_SKILLS[c].category,
                          TECHNICAL_SKILLS[c].skills[k],
                          WholeWordOccurrences(reqResumeText.body,
                                               TECHNICAL_SKILLS[c].skills[k]))

\* the text names c++, c# and .net between blanks and no record is returned
C26_Witness ==
  /\ pc = "extracted"
  /\ reqResumeText.body = <<"s","c","h","e","d","u","l","e","d"," ","c","+","+"," ","c","#"," ",".","n","e","t">>
  /\ WholeWordOccurrences(reqResumeText.body, <<"c","+","+">>) = 1
  /\ WholeWordOccurrences(reqResumeText.body, <<"c","#">>) = 1
  /\ WholeWordOccurrences(reqResumeText.body, <<".","n","e","t">>) = 1
  /\ reqResumeKeywords.skills = <<>>

--------------------------------------------------------------------------
(* Properties of POST /api/analyze (checked under SpecRequest) *)

\* C17: for every request for which multer stored a file, cleanupFile has
\* been called on the file by the time the response is sent: on success, on
\* a validation failure (400) and on a processing error (500).
C17_UploadCleanedUpOnEveryPath ==
  (pc = "sent" /\ reqFile) => cleanupCalls >= 1

\* a request with a stored file and a blank job description has been
\* answered with 400, and the file is still in the uploads directory
C17_Witness ==
  /\ pc = "sent"
  /\ reqFile
  /\ response.status = 400
  /\ IsBlank(reqJobDescription)
  /\ cleanupCalls = 0
  /\ fileOnDisk

\* C18: every successful response has in data a scoreGrade, the grade that
\* calculateScore computed for the overallScore of the same response.
C18_ResponseCarriesScoreGrade ==
  (pc = "sent" /\ response.status = 200) =>
    /\ "scoreGrade" \in DOMAIN response.body.data
    /\ response.body.data.scoreGrade = reqScoreResults.scoreGrade

\* a successful response has been sent whose data has the overallScore that
\* calculateScore graded, and no scoreGrade
C18_Witness ==
  /\ pc = "sent"
  /\ response.status = 200
  /\ response.sent
  /\ response.body.data.overallScore = reqScoreResults.overallScore
  /\ reqScoreResults.scoreGrade = getScoreGrade(response.body.data.overallScore)
  /\ "scoreGrade" \notin DOMAIN response.body.data


--------------------------------------------------------------------------
(* Properties of the page (checked under SpecPage and SpecRequest) *)

\* C28: in every reachable state of the page, under any interleaving of file
\* selection, file removal, edits of the job description and the completion
\* of an analysis request, the Analyze button is enabled only if a file is
\* selected and the job description is not empty.
C28_EnabledOnlyWithInputs ==
  ~analyzeBtnDisabled =>
    /\ selectedFile # <<>>
    /\ jobDescriptionValue # Text(<<>>, 0)

\* no request is in flight any more, no file is selected and the Analyze
\* button is enabled
C28_Witness ==
  /\ pendingRequests = 0
  /\ selectedFile = <<>>
  /\ ~analyzeBtnDisabled

\* C29: while a request of analyzeResume is in flight, between the disabling
\* of the button and the finally block, the Analyze button stays disabled
\* whatever the user does, so at most one request of the page is pending.
C29_DisabledWhileInFlight ==
  /\ pendingRequests > 0 => analyzeBtnDisabled
  /\ pendingRequests <= 1

\* a second click has sent a second request while the first is in flight
C29_Witness ==
  /\ pendingRequests = 2
  /\ analyzeBtnDisabled
  /\ selectedFile # <<>>

\* C30: for every successful response of POST /api/analyze the page's
\* displayResults runs its six steps to the end (overall score, breakdown,
\* metrics, keywords, skills, recommendations) without an error: the
\* recommendations are rendered and analyzeResume does not show the error
\* message.
C30_DisplayRunsToEnd ==
  (pc = "received" /\ response.status = 200) =>
    /\ displayedSteps = DisplaySteps
    /\ ~errorShown

\* a successful response has been received: the first four steps ran, the
\* step for the skills threw, the recommendations were not rendered and the
\* error message is shown above the results
C30_Witness ==
  /\ pc = "received"
  /\ response.status = 200
  /\ response.body.success
  /\ currentAnalysis = response.body.data
  /\ "analysis" \notin DOMAIN response.body.data.skillsAnalysis
  /\ displayedSteps = <<"overallScore", "scoreBreakdown", "metrics", "keywordAnalysis">>
  /\ resultsShown
  /\ errorShown
==========================================================================
